---------------------------- MODULE Spec2Model ----------------------------
(***************************************************************************)
(* A model of the resilient transport (collector/connection_manager.py,   *)
(* class HTTPClient) and of the historical backfill reconciler            *)
(* (collector/parsers/historical_backfill.py, class HistoricalBackfiller).*)
(*                                                                         *)
(* Spec          the HTTP client: sequential get calls against a small set *)
(*               of URLs, a discrete wall clock, the two retry layers and  *)
(*               the per-endpoint circuit breaker.                         *)
(* SpecBackfill  two successive backfill_all runs of one process against   *)
(*               one store and one fixed upstream.                         *)
(***************************************************************************)
EXTENDS Integers, Sequences, FiniteSets, Bags, TLC

(***************************************************************************)
(* Bounds of the model.                                                    *)
(***************************************************************************)
MaxTime == 3
MaxRetriesBound == 1
MaxThreshold == 2
MaxCbTimeout == 2
MaxDaysBack == 1
MaxHist == 2
MaxFaults == 1
MaxRuns == 2
MaxCycles == 2
MaxCalls == 3
MaxSleeps == 3
MaxTxns == 3
MaxWrites == 2
JitterSteps == 4

(***************************************************************************)
(* Python dict helpers: d.get(k, default), d[k] = v, del d[k].             *)
(***************************************************************************)
DictGet(d, k, default) == IF k \in DOMAIN d THEN d[k] ELSE default

DictPut(d, k, v) == [x \in DOMAIN d \cup {k} |-> IF x = k THEN v ELSE d[x]]

DictDel(d, k) == [x \in DOMAIN d \ {k} |-> d[x]]

EmptyDict == [x \in {} |-> 0]

(***************************************************************************)
(* URLs.  A URL is (netloc, path, query).  The backfiller's URLs: the       *)
(* catalog ("overview") of a category and the history of one entity, which *)
(* for one category differ only in their query string.                     *)
(***************************************************************************)
Categories == <<"currency", "divination_cards", "unique_items">>

CategorySet == {Categories[i] : i \in DOMAIN Categories}

CurrencyOverviewPath == "/poe1/api/economy/stash/current/currency/overview"

CurrencyHistoryPath == "/poe1/api/economy/stash/current/currency/history"

ItemOverviewPath == "/poe1/api/economy/stash/current/item/overview"

ItemHistoryPath == "/poe1/api/economy/stash/current/item/history"

TypeParam(cat) ==
    CASE cat = "currency" -> "Currency"
      [] cat = "divination_cards" -> "DivinationCard"
      [] cat = "unique_items" -> "UniqueWeapon"

Url(path, type, id) ==
    [netloc |-> "poe.ninja", path |-> path, query |-> [type |-> type, id |-> id]]

\* The catalog request of a category (no id parameter: id 0 here).
CatalogUrl(cat) ==
    Url(IF cat = "currency" THEN CurrencyOverviewPath ELSE ItemOverviewPath, TypeParam(cat), 0)

\* The history request of one entity of a category.
HistoryUrl(cat, api_id) ==
    Url(IF cat = "currency" THEN CurrencyHistoryPath ELSE ItemHistoryPath, TypeParam(cat), api_id)

\* The URLs the client is called with.
URLs == { CatalogUrl("currency"), HistoryUrl("currency", 1), HistoryUrl("currency", 2) }

\* A key that keeps the query.
GetCircuitKeyWithQuery(url) == <<url.netloc, url.path, url.query>>

\* _get_circuit_key: netloc followed by path; the query is dropped.
GetCircuitKey(url) == <<url.netloc, url.path>>

Keys == { GetCircuitKey(u) : u \in URLs }

(***************************************************************************)
(* What one network request can end in.                                    *)
(*   ok            a response with status < 400                            *)
(*   client_error  a 4xx other than 429                                    *)
(*   retry_status  429, 500, 502, 503, 504 (the adapter's status_forcelist)*)
(*   other_5xx     a 5xx outside the forcelist (501, 505, ...)             *)
(*   timeout       connect or read timeout                                 *)
(*   conn_error    connection error                                        *)
(***************************************************************************)
Outcomes == {"ok", "client_error", "retry_status", "other_5xx", "timeout", "conn_error"}

\* No time recorded yet (times are >= 0).
NoTime == 0 - 1

VARIABLES
    now,                    \* time.time(), in whole seconds
    max_retries,            \* HTTPClient.max_retries
    circuit_breaker_threshold,
    circuit_breaker_timeout,
    enable_circuit_breaker,
    failure_counts,         \* HTTPClient._failure_counts: key -> count
    circuit_open_until,     \* HTTPClient._circuit_open_until: key -> time
    pc,                     \* position of the get in progress: idle, request, sleep
    call,                   \* the get in progress, or the last one when idle
    watched,                \* observer: the key the observers below follow (any one key)
    streak,                 \* observer: terminal failures of the watched key since its last
                            \*   success or since its last completed run of threshold failures
    pattern,                \* observer: 1 after a success that followed threshold-1 failures,
                            \*   2 after exactly one failure following that success, else 0
    tripAt,                 \* observer: when the watched key last completed a run of
                            \*   threshold consecutive terminal failures
    today,                  \* datetime.now().date(), as a day number
    league_id,              \* HistoricalBackfiller.league_id
    max_days_back,          \* the lookback horizon given to backfill_all
    catalog,                \* upstream: category -> the details of its current overview
    history,                \* upstream: category -> entity id -> its history payload
    store,                  \* the three tables: category -> bag of rows
    run,                    \* how many backfill_all runs have begun
    bpc,                    \* position of the run: idle, category, entities, done
    ci,                     \* index in Categories of the category being backfilled
    name_to_id_map,         \* the entries of name_to_id_map not yet iterated, in order
    items_processed,        \* backfill_<category>: local counter
    total_records,          \* backfill_<category>: local counter
    results,                \* backfill_all: category -> (items_processed, total_records)
    faults,                 \* observer: failures of the store or of upstream so far
    appended,               \* observer: rows each table received in the current run
    cleanFirstRun,          \* observer: nothing failed during the first run
    lastFetch,              \* observer: the last upstream request of the backfiller
    lastEntity,             \* observer: the last entity step of the backfiller
    requested,              \* observer: the upstream requests of the current run, as a bag
                            \*   of (category, entity name), the name "" for the catalog
    cycle_count,            \* main: collection cycles begun
    csrc,                   \* main: index of the next source of the cycle, 0 between cycles
    in_pay,                 \* reconciler input: pay_entry
    in_receive,             \* reconciler input: receive_entry
    in_entry,               \* reconciler input: the entry of a card or an item
    out_record,             \* reconciler output
    leagues,                \* the leagues table, in insertion order
    returned,               \* what the get_or_create_league calls so far returned
    league_faults,          \* observer: failed queries of the leagues table so far
    backoff_factor,         \* HTTPClient.backoff_factor, in units of 1/JitterSteps second
    slept,                  \* the backoff sleeps of a get whose attempts all fail, in order
    name_unique,            \* whether the leagues table enforces unique league names
    racer,                  \* two concurrent get_or_create_league calls: process -> its call
    backfiller,             \* two concurrent backfills of one card: process -> its position
                            \*   and the existing_dates it read
    txn,                    \* managed_transaction: the with block in progress
    txlog,                  \* managed_transaction: how the blocks so far ended, in order
    durable,                \* the writes the store has committed
    startup,                \* an entry point from its start: configuration, position,
                            \*   exit status, connections and upstream requests made
    loop,                   \* the loop of collector.main: position, inter-cycle sleeps
                            \*   completed, and what has happened to it
    prev_url,               \* observer: the URL of the get before the one in progress
    wrapped                 \* one invocation of a function wrapped by with_retry: the
                            \*   position of the wrapper, its calls and its sleeps

params == <<max_retries, circuit_breaker_threshold, circuit_breaker_timeout, enable_circuit_breaker>>

observers == <<watched, streak, pattern, tripAt>>

clientVars == <<now, params, failure_counts, circuit_open_until, pc, call, observers>>

upstreamVars == <<today, league_id, max_days_back, catalog, history>>

runVars == <<run, bpc, ci, name_to_id_map, items_processed, total_records, results>>

backfillObservers == <<faults, appended, cleanFirstRun, lastFetch, lastEntity, requested>>

backfillVars == <<upstreamVars, store, runVars, backfillObservers>>

collectorVars == <<cycle_count, csrc>>

reconcilerVars == <<in_pay, in_receive, in_entry, out_record>>

leagueVars == <<leagues, returned, league_faults>>

backoffVars == <<backoff_factor, slept>>

leagueRaceVars == <<name_unique, racer>>

txVars == <<txn, txlog, durable>>

raceVars == <<backoffVars, leagueRaceVars, backfiller>>

moreVars == <<raceVars, txVars, startup, loop, prev_url, wrapped>>

restVars == <<collectorVars, reconcilerVars, leagueVars, moreVars>>

vars == <<clientVars, backfillVars, restVars>>

\* The fields of a call: the url, the attempt of the loop of get (0-based), the
\* retries the adapter has made within this attempt, the network requests and the
\* backoff sleeps so far, the outcome of the last request, the result (pending,
\* response, none), and what the observers saw when the call began.
NoCall ==
    [url |-> Url("", "", 0), attempt |-> 0, inner |-> 0, requests |-> 0, sleeps |-> 0,
     lastOutcome |-> "none", result |-> "init", shortCircuited |-> FALSE,
     expiredAtBegin |-> FALSE, inCooldown |-> FALSE]

\* HTTPClient.__init__: the constructor's parameters and the empty breaker state.
InitClient ==
    /\ now = 0
    /\ max_retries \in 0..MaxRetriesBound
    /\ circuit_breaker_threshold \in 1..MaxThreshold
    /\ circuit_breaker_timeout \in 1..MaxCbTimeout
    /\ enable_circuit_breaker \in BOOLEAN
    /\ failure_counts = EmptyDict
    /\ circuit_open_until = EmptyDict
    /\ pc = "idle"
    /\ call = NoCall
    /\ watched \in Keys
    /\ streak = 0
    /\ pattern = 0
    /\ tripAt = NoTime

(***************************************************************************)
(* _check_circuit_breaker(url) at time t: whether the call is short-       *)
(* circuited, and the breaker state it leaves.                             *)
(***************************************************************************)
CheckCircuitBreakerInclusive(fc, ou, k, t) ==
    IF ~enable_circuit_breaker
    THEN [open |-> FALSE, fc |-> fc, ou |-> ou]
    ELSE IF k \in DOMAIN ou
         THEN IF t <= ou[k]
              THEN [open |-> TRUE, fc |-> fc, ou |-> ou]
              ELSE [open |-> FALSE, fc |-> DictPut(fc, k, 0), ou |-> DictDel(ou, k)]
         ELSE [open |-> FALSE, fc |-> fc, ou |-> ou]

CheckCircuitBreakerKeepsCount(fc, ou, k, t) ==
    IF ~enable_circuit_breaker
    THEN [open |-> FALSE, fc |-> fc, ou |-> ou]
    ELSE IF k \in DOMAIN ou
         THEN IF t < ou[k]
              THEN [open |-> TRUE, fc |-> fc, ou |-> ou]
              ELSE [open |-> FALSE, fc |-> fc, ou |-> DictDel(ou, k)]
         ELSE [open |-> FALSE, fc |-> fc, ou |-> ou]

\* A check that counts the call it rejects and restarts the cooldown.
CheckCircuitBreakerCountsRejected(fc, ou, k, t) ==
    IF ~enable_circuit_breaker
    THEN [open |-> FALSE, fc |-> fc, ou |-> ou]
    ELSE IF k \in DOMAIN ou
         THEN IF t < ou[k]
              THEN [open |-> TRUE, fc |-> DictPut(fc, k, DictGet(fc, k, 0) + 1),
                    ou |-> DictPut(ou, k, t + circuit_breaker_timeout)]
              ELSE [open |-> FALSE, fc |-> DictPut(fc, k, 0), ou |-> DictDel(ou, k)]
         ELSE [open |-> FALSE, fc |-> fc, ou |-> ou]

\* A check that lets every call through.
CheckCircuitBreakerNeverOpen(fc, ou, k, t) == [open |-> FALSE, fc |-> fc, ou |-> ou]

CheckCircuitBreaker(fc, ou, k, t) ==
    IF ~enable_circuit_breaker
    THEN [open |-> FALSE, fc |-> fc, ou |-> ou]
    ELSE IF k \in DOMAIN ou
         THEN IF t < ou[k]
              THEN [open |-> TRUE, fc |-> fc, ou |-> ou]
              ELSE [open |-> FALSE, fc |-> DictPut(fc, k, 0), ou |-> DictDel(ou, k)]
         ELSE [open |-> FALSE, fc |-> fc, ou |-> ou]

(***************************************************************************)
(* _record_failure(url) at time t.                                         *)
(***************************************************************************)
RecordFailureStrictlyAbove(fc, ou, k, t) ==
    IF ~enable_circuit_breaker
    THEN [fc |-> fc, ou |-> ou]
    ELSE LET n == DictGet(fc, k, 0) + 1
         IN  [fc |-> DictPut(fc, k, n),
              ou |-> IF n > circuit_breaker_threshold
                     THEN DictPut(ou, k, t + circuit_breaker_timeout)
                     ELSE ou]

\* A failure counted twice.
RecordFailureTwice(fc, ou, k, t) ==
    IF ~enable_circuit_breaker
    THEN [fc |-> fc, ou |-> ou]
    ELSE LET n == DictGet(fc, k, 0) + 2
         IN  [fc |-> DictPut(fc, k, n),
              ou |-> IF n >= circuit_breaker_threshold
                     THEN DictPut(ou, k, t + circuit_breaker_timeout)
                     ELSE ou]

RecordFailure(fc, ou, k, t) ==
    IF ~enable_circuit_breaker
    THEN [fc |-> fc, ou |-> ou]
    ELSE LET n == DictGet(fc, k, 0) + 1
         IN  [fc |-> DictPut(fc, k, n),
              ou |-> IF n >= circuit_breaker_threshold
                     THEN DictPut(ou, k, t + circuit_breaker_timeout)
                     ELSE ou]

(***************************************************************************)
(* _record_success(url).                                                   *)
(***************************************************************************)
RecordSuccessNoReset(fc, k) == fc

RecordSuccess(fc, k) ==
    IF ~enable_circuit_breaker
    THEN fc
    ELSE IF k \in DOMAIN fc THEN DictPut(fc, k, 0) ELSE fc

(***************************************************************************)
(* get, line 232-234: a 4xx other than 429 records a failure and returns.  *)
(***************************************************************************)
ClientErrorNotRecorded(fc, ou, k, t) == [fc |-> fc, ou |-> ou]

ClientErrorBreaker(fc, ou, k, t) == RecordFailure(fc, ou, k, t)

(***************************************************************************)
(* The adapter mounted by _create_session retries a request by itself:     *)
(* Retry(total=max_retries, status_forcelist=[429, 500, 502, 503, 504]).   *)
(* AdapterRetries(o, inner): after `inner` retries already made for this   *)
(* session.get, does outcome o make the adapter send the request again?    *)
(***************************************************************************)
AdapterRetries(o, inner) ==
    /\ o \in {"retry_status", "timeout", "conn_error"}
    /\ inner < max_retries

(***************************************************************************)
(* get, line 260: after a caught failure of the attempt with loop index    *)
(* `attempt`, is there a backoff sleep ("Don't sleep after last attempt")? *)
(***************************************************************************)
SleepsAfterEveryAttempt(attempt) == attempt <= max_retries

SleepsBeforeRetry(attempt) == attempt < max_retries

(***************************************************************************)
(* The observers' updates on a get for key k that reached the network.     *)
(***************************************************************************)
ObserveFailure(k) ==
    IF k # watched
    THEN UNCHANGED observers
    ELSE /\ IF streak + 1 >= circuit_breaker_threshold
            THEN streak' = 0 /\ tripAt' = now
            ELSE streak' = streak + 1 /\ tripAt' = tripAt
         /\ pattern' = IF pattern = 1 THEN 2 ELSE 0
         /\ UNCHANGED watched

ObserveSuccess(k) ==
    IF k # watched
    THEN UNCHANGED observers
    ELSE /\ pattern' = IF streak = circuit_breaker_threshold - 1 THEN 1 ELSE 0
         /\ streak' = 0
         /\ UNCHANGED <<watched, tripAt>>

(***************************************************************************)
(* time.time() advances, at any point of a call or between calls.          *)
(***************************************************************************)
Tick ==
    /\ now < MaxTime
    /\ now' = now + 1
    /\ UNCHANGED <<params, failure_counts, circuit_open_until, pc, call, observers, backfillVars, restVars>>

(***************************************************************************)
(* get(url), lines 203-211: the circuit-breaker check.                     *)
(***************************************************************************)
BeginGet ==
    /\ pc = "idle"
    /\ \E u \in URLs :
        LET k == GetCircuitKey(u)
            chk == CheckCircuitBreaker(failure_counts, circuit_open_until, k, now)
            c == [NoCall EXCEPT
                    !.url = u,
                    !.inCooldown =
                        /\ k = watched
                        /\ tripAt # NoTime
                        /\ now < tripAt + circuit_breaker_timeout,
                    !.expiredAtBegin =
                        /\ k \in DOMAIN circuit_open_until
                        /\ now >= circuit_open_until[k]]
        IN  /\ failure_counts' = chk.fc
            /\ circuit_open_until' = chk.ou
            /\ IF chk.open
               THEN /\ pc' = "idle"
                    /\ call' = [c EXCEPT !.result = "none", !.shortCircuited = TRUE]
               ELSE /\ pc' = "request"
                    /\ call' = [c EXCEPT !.result = "pending"]
    /\ UNCHANGED <<now, params, observers, backfillVars>>

GetBegin == BeginGet /\ UNCHANGED restVars

(***************************************************************************)
(* One network request of session.get, lines 217-257, and what the adapter *)
(* and the loop of get do with its outcome.                                *)
(***************************************************************************)
Request ==
    /\ pc = "request"
    /\ \E o \in Outcomes :
        LET k == GetCircuitKey(call.url)
            c == [call EXCEPT !.requests = @ + 1, !.lastOutcome = o]
        IN  IF AdapterRetries(o, call.inner)
            THEN \* the adapter sends the request again
                 /\ call' = [c EXCEPT !.inner = @ + 1]
                 /\ UNCHANGED <<pc, failure_counts, circuit_open_until, observers>>
            ELSE IF o = "ok"
            THEN \* lines 238-241
                 /\ failure_counts' = RecordSuccess(failure_counts, k)
                 /\ call' = [c EXCEPT !.result = "response"]
                 /\ pc' = "idle"
                 /\ ObserveSuccess(k)
                 /\ UNCHANGED circuit_open_until
            ELSE IF o = "client_error"
            THEN \* lines 232-234
                 LET r == ClientErrorBreaker(failure_counts, circuit_open_until, k, now)
                 IN  /\ failure_counts' = r.fc
                     /\ circuit_open_until' = r.ou
                     /\ call' = [c EXCEPT !.result = "none"]
                     /\ pc' = "idle"
                     /\ ObserveFailure(k)
            ELSE IF SleepsBeforeRetry(call.attempt)
            THEN \* lines 243-260: caught, and a retry is left
                 /\ call' = c
                 /\ pc' = "sleep"
                 /\ UNCHANGED <<failure_counts, circuit_open_until, observers>>
            ELSE \* lines 266-272: all attempts failed
                 LET r == RecordFailure(failure_counts, circuit_open_until, k, now)
                 IN  /\ failure_counts' = r.fc
                     /\ circuit_open_until' = r.ou
                     /\ call' = [c EXCEPT !.result = "none"]
                     /\ pc' = "idle"
                     /\ ObserveFailure(k)
    /\ UNCHANGED <<now, params, backfillVars, restVars>>

(***************************************************************************)
(* Lines 260-264: the backoff sleep, then the next attempt of the loop.    *)
(***************************************************************************)
Sleep ==
    /\ pc = "sleep"
    /\ call' = [call EXCEPT !.sleeps = @ + 1, !.attempt = @ + 1, !.inner = 0]
    /\ pc' = "request"
    /\ UNCHANGED <<now, params, failure_counts, circuit_open_until, observers, backfillVars, restVars>>


(***************************************************************************)
(*                       The historical backfiller                         *)
(***************************************************************************)

(***************************************************************************)
(* JSON values of an upstream payload: a key that is absent, null, or the  *)
(* number n/d (d > 0).                                                     *)
(***************************************************************************)
Absent == [t |-> "absent"]

Null == [t |-> "null"]

Num(n, d) == [t |-> "num", n |-> n, d |-> d]

Whole(n) == Num(n, 1)

\* dict.get(key, default): the default only when the key is absent.
JsonGet(field, default) == IF field.t = "absent" THEN default ELSE field

\* x > 0, for a number x (None > 0 raises TypeError: see CompareRaises).
IsPositive(x) == x.t = "num" /\ x.n > 0

CompareRaises(x) == x.t = "null"

\* The truth value of a number or of None.
Truthy(x) == x.t = "num" /\ x.n # 0

\* max(a, b) of two numbers.
MaxNum(a, b) == IF a.n * b.d >= b.n * a.d THEN a ELSE b

Micro == 1000000

RECURSIVE Gcd(_, _)
Gcd(a, b) == IF b = 0 THEN a ELSE Gcd(b, a % b)

\* round(n/d, 6) for n >= 0 and d > 0: the nearest multiple of 1/Micro.
Round6(n, d) ==
    LET g == Gcd(n, d)
        n1 == n \div g
        d1 == d \div g
    IN  Num((n1 \div d1) * Micro + (2 * (n1 % d1) * Micro + d1) \div (2 * d1), Micro)

(***************************************************************************)
(* Timestamps: a calendar day and the seconds since its midnight.          *)
(***************************************************************************)
\* datetime.combine(entry_date, datetime.min.time())
Midnight(date) == [date |-> date, secs |-> 0]

\* SQL DATE(timestamp)
DateOf(ts) == ts.date

(***************************************************************************)
(* What processing one entry gives: a record, None, or an exception.       *)
(***************************************************************************)
NoRecord == [t |-> "none"]

Raised == [t |-> "raise"]

Record(row) == [t |-> "record", row |-> row]

\* dict.get(days_ago) of a day the graph has no entry for.
NoEntry == [t |-> "none"]

(***************************************************************************)
(* _process_currency_entry_both                                            *)
(***************************************************************************)
\* The weighted mean the source keeps in a comment:
\* sum(v * w for v, w in zip(values, weights)) / sum(weights)
ChaosEquivalentWeighted(pay_value, pay_count, receive_value, receive_count) ==
    LET usePay == IsPositive(pay_value)
        useReceive == IsPositive(receive_value) /\ IsPositive(receive_count)
        w1 == IF Truthy(pay_count) THEN pay_count.n ELSE 1
        w2 == receive_count.n
    IN  IF usePay /\ useReceive
        THEN Round6(pay_value.d * w1 * receive_value.d + receive_value.n * w2 * pay_value.n,
                    pay_value.n * receive_value.d * (w1 + w2))
        ELSE IF usePay
        THEN Round6(pay_value.d, pay_value.n)
        ELSE Round6(receive_value.n, receive_value.d)

\* round(sum(values) / len(values), 6), values being 1 / pay_value when
\* pay_value > 0 and receive_value when receive_value > 0 and receive_count > 0
\* (at least one of them applies).
ChaosEquivalent(pay_value, pay_count, receive_value, receive_count) ==
    LET usePay == IsPositive(pay_value)
        useReceive == IsPositive(receive_value) /\ IsPositive(receive_count)
    IN  IF usePay /\ useReceive
        THEN Round6(pay_value.d * receive_value.d + receive_value.n * pay_value.n,
                    2 * pay_value.n * receive_value.d)
        ELSE IF usePay
        THEN Round6(pay_value.d, pay_value.n)
        ELSE Round6(receive_value.n, receive_value.d)

ProcessCurrencyEntryBoth(pay_entry, receive_entry, currency_name, entry_date) ==
    IF pay_entry = NoEntry /\ receive_entry = NoEntry
    THEN NoRecord
    ELSE
    LET pay_value == IF pay_entry # NoEntry THEN JsonGet(pay_entry.value, Whole(0)) ELSE Whole(0)
        pay_count == IF pay_entry # NoEntry THEN JsonGet(pay_entry.count, Whole(0)) ELSE Whole(0)
        receive_value ==
            IF receive_entry # NoEntry THEN JsonGet(receive_entry.value, Whole(0)) ELSE Whole(0)
        receive_count ==
            IF receive_entry # NoEntry THEN JsonGet(receive_entry.count, Whole(0)) ELSE Whole(0)
        usePay == IsPositive(pay_value)
        useReceive == IsPositive(receive_value) /\ IsPositive(receive_count)
        chaos_equivalent == ChaosEquivalent(pay_value, pay_count, receive_value, receive_count)
    IN  IF \/ CompareRaises(pay_value)
           \/ CompareRaises(receive_value)
           \/ (IsPositive(receive_value) /\ CompareRaises(receive_count))
        THEN Raised
        ELSE IF ~usePay /\ ~useReceive
        THEN NoRecord
        ELSE IF /\ (Truthy(pay_count) \/ Truthy(receive_count))
                /\ (pay_count.t = "null" \/ receive_count.t = "null")
        THEN Raised     \* max(None, n)
        ELSE Record(
            [timestamp |-> Midnight(entry_date),
             league_id |-> league_id,
             currency_name |-> currency_name,
             details_id |-> Null,
             chaos_equivalent |-> chaos_equivalent,
             pay_value |-> IF usePay THEN Round6(pay_value.d, pay_value.n) ELSE Null,
             receive_value |->
                IF useReceive THEN Round6(receive_value.n, receive_value.d) ELSE Null,
             trade_count |->
                IF Truthy(pay_count) \/ Truthy(receive_count)
                THEN MaxNum(pay_count, receive_count)
                ELSE Null])

(***************************************************************************)
(* _process_card_entry and _process_item_entry                             *)
(***************************************************************************)
ProcessCardEntry(entry, card_name, entry_date) ==
    Record(
        [timestamp |-> Midnight(entry_date),
         league_id |-> league_id,
         card_name |-> card_name,
         stack_size |-> Null,
         chaos_value |-> JsonGet(entry.value, Whole(0)),
         trade_count |-> JsonGet(entry.count, Whole(0)),
         details_id |-> Null])

ProcessItemEntry(entry, item_name, entry_date) ==
    Record(
        [timestamp |-> Midnight(entry_date),
         league_id |-> league_id,
         item_name |-> item_name,
         base_type |-> Null,
         item_type |-> Null,
         level_required |-> Null,
         chaos_value |-> JsonGet(entry.value, Whole(0)),
         links |-> Null,
         details_id |-> Null])

(***************************************************************************)
(* The store's queries.                                                    *)
(***************************************************************************)
\* The entity-name column of a table.
NameOf(cat, row) ==
    CASE cat = "currency" -> row.currency_name
      [] cat = "divination_cards" -> row.card_name
      [] cat = "unique_items" -> row.item_name

LeagueRows(cat) == {r \in BagToSet(store[cat]) : r.league_id = league_id}

\* _get_existing_<category>_names: SELECT DISTINCT name; [] when the query fails.
GetExistingNames(cat, ok) ==
    IF ok THEN {NameOf(cat, r) : r \in LeagueRows(cat)} ELSE {}

\* The stored dates of one entity: SELECT DISTINCT DATE(timestamp).
StoredDates(cat, name) ==
    {DateOf(r.timestamp) : r \in {q \in LeagueRows(cat) : NameOf(cat, q) = name}}

\* _get_existing_<category>_dates: set() when the query fails.
GetExistingDates(cat, name, ok) ==
    IF ok THEN StoredDates(cat, name) ELSE {}

(***************************************************************************)
(* _map_<category>_names_to_ids: name_to_id_map as the sequence of its     *)
(* (name, id) items in insertion order.                                    *)
(***************************************************************************)
\* A map that keeps an item per assignment.
MapPutAppends(m, name, id) == Append(m, <<name, id>>)

\* name_to_id_map[name] = id
MapPut(m, name, id) ==
    IF \E i \in DOMAIN m : m[i][1] = name
    THEN [i \in DOMAIN m |-> IF m[i][1] = name THEN <<name, id>> ELSE m[i]]
    ELSE Append(m, <<name, id>>)

\* A catalog entry that is not an object: detail.get raises AttributeError.
IsObject(detail) == "name" \in DOMAIN detail

MapRaises(details) == \E i \in DOMAIN details : ~IsObject(details[i])

\* A matching that does not ask whether the store holds the name.
RECURSIVE MapNamesToIdsIgnoringStore(_, _, _)
MapNamesToIdsIgnoringStore(details, existing_names, acc) ==
    IF details = <<>>
    THEN acc
    ELSE MapNamesToIdsIgnoringStore(
            Tail(details), existing_names,
            IF ~Truthy(JsonGet(Head(details).id, Null))
            THEN acc
            ELSE MapPut(acc, Head(details).name, JsonGet(Head(details).id, Null).n))

RECURSIVE MapNamesToIds(_, _, _)
MapNamesToIds(details, existing_names, acc) ==
    IF details = <<>>
    THEN acc
    ELSE LET detail == Head(details)
             api_name == detail.name
             api_id == JsonGet(detail.id, Null)
         IN  MapNamesToIds(
                Tail(details), existing_names,
                IF ~Truthy(api_id)
                THEN acc
                ELSE IF api_name \in existing_names
                THEN MapPut(acc, api_name, api_id.n)
                ELSE acc)

(***************************************************************************)
(* What _backfill_single_<category> does: the rows it appends, the count   *)
(* it returns, or the exception it raises.                                 *)
(***************************************************************************)
Returned(n, rows) == [t |-> "return", n |-> n, rows |-> rows, insertFailed |-> FALSE]

\* An exception met while the entries are processed, before any insert.
RaisedOut == [t |-> "raise", n |-> 0, rows |-> EmptyBag, insertFailed |-> FALSE]

\* An insert whose failure is swallowed: the records are counted though none is stored.
InsertRecordsSwallowing(records, insertOk) ==
    [t |-> "return", n |-> BagCardinality(records),
     rows |-> IF insertOk THEN records ELSE EmptyBag, insertFailed |-> ~insertOk]

\* _insert_<category>_records: to_sql appends every record, or raises (it logs and
\* re-raises) and appends none.
InsertRecords(records, insertOk) ==
    IF insertOk
    THEN Returned(BagCardinality(records), records)
    ELSE [t |-> "raise", n |-> 0, rows |-> EmptyBag, insertFailed |-> TRUE]

RECURSIVE SeqToBag(_)
SeqToBag(rows) ==
    IF rows = <<>> THEN EmptyBag ELSE SetToBag({Head(rows)}) (+) SeqToBag(Tail(rows))

\* A history payload of another shape than its category expects carries a tag: a
\* JSON list where the two-graph object of a currency is expected, a JSON object
\* (not empty) where the list of a card or an item is expected.
NotADict == [t |-> "list"]

NotAList == <<[t |-> "object"]>>

\* isinstance(historical_data, dict)
IsDict(h) == "t" \notin DOMAIN h

\* Whether "for entry in historical_data" meets entries: over an object it meets
\* the keys, and entry.get raises AttributeError.
IsList(h) == \A i \in DOMAIN h : "t" \notin DOMAIN h[i]

\* {e['daysAgo']: e for e in graph if 'daysAgo' in e}, for numeric daysAgo
GraphDays(graph) ==
    {graph[i].daysAgo.n : i \in {j \in DOMAIN graph : graph[j].daysAgo.t = "num"}}

ByDay(graph, d) ==
    IF d \in GraphDays(graph)
    THEN LET idx == {i \in DOMAIN graph : graph[i].daysAgo = Whole(d)}
         IN  graph[CHOOSE i \in idx : \A j \in idx : j <= i]
    ELSE NoEntry

\* "if days_ago > max_days_back: continue"
WithinHorizon(days_ago) == ~(days_ago > max_days_back)

\* The days of a currency history for which the loop queries the stored dates.
CurrencyDays(api_id) ==
    LET h == history["currency"][api_id]
    IN  IF IsDict(h)
        THEN {d \in GraphDays(h.receiveCurrencyGraphData) \cup GraphDays(h.payCurrencyGraphData) :
                 WithinHorizon(d)}
        ELSE {}

\* _backfill_single_currency; failDays: the days whose date query fails.
BackfillSingleCurrency(currency_name, api_id, fetchOk, failDays, insertOk) ==
    IF ~fetchOk \/ ~IsDict(history["currency"][api_id])
    THEN Returned(0, EmptyBag)
    ELSE
    LET h == history["currency"][api_id]
        receive_graph == h.receiveCurrencyGraphData
        pay_graph == h.payCurrencyGraphData
        nullDay == \E i \in DOMAIN receive_graph : receive_graph[i].daysAgo.t = "null"
        nullDayPay == \E i \in DOMAIN pay_graph : pay_graph[i].daysAgo.t = "null"
        days == {d \in CurrencyDays(api_id) :
                    (today - d) \notin GetExistingDates("currency", currency_name, d \notin failDays)}
        processed(d) ==
            ProcessCurrencyEntryBoth(ByDay(pay_graph, d), ByDay(receive_graph, d),
                                     currency_name, today - d)
        records_to_insert == {processed(d).row : d \in {x \in days : processed(x).t = "record"}}
    IN  IF nullDay \/ nullDayPay
        THEN RaisedOut      \* sorted() or the comparison meets None
        ELSE IF \E d \in days : processed(d).t = "raise"
        THEN RaisedOut
        ELSE IF records_to_insert # {}
        THEN InsertRecords(SetToBag(records_to_insert), insertOk)
        ELSE Returned(0, EmptyBag)

ProcessListEntry(cat, entry, name, entry_date) ==
    IF cat = "divination_cards"
    THEN ProcessCardEntry(entry, name, entry_date)
    ELSE ProcessItemEntry(entry, name, entry_date)

\* A loop that takes an entry without daysAgo for an entry of today.
RECURSIVE ListRecordsDefaultingDay(_, _, _, _)
ListRecordsDefaultingDay(cat, entries, name, existing_dates) ==
    IF entries = <<>>
    THEN <<>>
    ELSE LET entry == Head(entries)
             days_ago == JsonGet(entry.daysAgo, Whole(0))
             rest == ListRecordsDefaultingDay(cat, Tail(entries), name, existing_dates)
         IN  IF days_ago.t = "null" \/ ~WithinHorizon(days_ago.n)
             THEN rest
             ELSE IF (today - days_ago.n) \in existing_dates
             THEN rest
             ELSE <<ProcessListEntry(cat, entry, name, today - days_ago.n).row>> \o rest

\* A loop that looks the date up in the store as it is now.
RECURSIVE ListRecordsRechecking(_, _, _, _)
ListRecordsRechecking(cat, entries, name, existing_dates) ==
    IF entries = <<>>
    THEN <<>>
    ELSE LET entry == Head(entries)
             days_ago == JsonGet(entry.daysAgo, Null)
             rest == ListRecordsRechecking(cat, Tail(entries), name, existing_dates)
         IN  IF days_ago.t = "null" \/ ~WithinHorizon(days_ago.n)
             THEN rest
             ELSE IF (today - days_ago.n) \in existing_dates \cup StoredDates(cat, name)
             THEN rest
             ELSE <<ProcessListEntry(cat, entry, name, today - days_ago.n).row>> \o rest

\* The loop of _backfill_single_card / _backfill_single_item over the entries.
RECURSIVE ListRecords(_, _, _, _)
ListRecords(cat, entries, name, existing_dates) ==
    IF entries = <<>>
    THEN <<>>
    ELSE LET entry == Head(entries)
             days_ago == JsonGet(entry.daysAgo, Null)
             rest == ListRecords(cat, Tail(entries), name, existing_dates)
         IN  IF days_ago.t = "null" \/ ~WithinHorizon(days_ago.n)
             THEN rest
             ELSE IF (today - days_ago.n) \in existing_dates
             THEN rest
             ELSE <<ProcessListEntry(cat, entry, name, today - days_ago.n).row>> \o rest

\* _backfill_single_card and _backfill_single_item
BackfillSingleListed(cat, name, api_id, fetchOk, readOk, insertOk) ==
    LET existing_dates == GetExistingDates(cat, name, readOk)
        records_to_insert ==
            IF fetchOk THEN ListRecords(cat, history[cat][api_id], name, existing_dates) ELSE <<>>
    IN  IF fetchOk /\ ~IsList(history[cat][api_id])
        THEN RaisedOut
        ELSE IF records_to_insert # <<>>
        THEN InsertRecords(SeqToBag(records_to_insert), insertOk)
        ELSE Returned(0, EmptyBag)

(***************************************************************************)
(* The states a backfill starts from.  One category (the focus) has a rich *)
(* catalog or a rich history; the other two have one matched entity with a *)
(* one-entry history.                                                      *)
(***************************************************************************)
SeqsUpTo(S, n) == UNION {[1..k -> S] : k \in 0..n}

EntityNames == {"A", "B"}

ApiIds == 1..3

\* A row the live collector stored earlier, at some instant of the day.
SeedRow(cat, lid, name, date) ==
    CASE cat = "currency" ->
            [timestamp |-> [date |-> date, secs |-> 1], league_id |-> lid,
             currency_name |-> name, details_id |-> Null, chaos_equivalent |-> Whole(1),
             pay_value |-> Null, receive_value |-> Null, trade_count |-> Null]
      [] cat = "divination_cards" ->
            [timestamp |-> [date |-> date, secs |-> 1], league_id |-> lid,
             card_name |-> name, stack_size |-> Null, chaos_value |-> Whole(1),
             trade_count |-> Null, details_id |-> Null]
      [] cat = "unique_items" ->
            [timestamp |-> [date |-> date, secs |-> 1], league_id |-> lid,
             item_name |-> name, base_type |-> Null, item_type |-> Null,
             level_required |-> Null, chaos_value |-> Whole(1), links |-> Null,
             details_id |-> Null]

Entry(days_ago, value, count) == [daysAgo |-> days_ago, value |-> value, count |-> count]

\* The daysAgo values an entry carries: none, or a day from tomorrow to beyond the horizon.
DaysAgoValues == {Absent} \cup {Whole(d) : d \in (0 - 1)..(MaxDaysBack + 1)}

ListEntries == {Entry(d, Whole(5), Whole(1)) : d \in DaysAgoValues}

PayEntries ==
    {Entry(d, Num(50, 1), Whole(3)) : d \in DaysAgoValues}
        \cup {Entry(Whole(0), Whole(0), Whole(0)), Entry(Whole(0), Null, Whole(3))}

ReceiveEntries ==
    {Entry(Whole(d), v, c) : d \in 0..1, v \in {Whole(0), Num(8, 1000)}, c \in {Whole(0), Whole(5)}}

CurrencyHistory(pay, receive) ==
    [payCurrencyGraphData |-> pay, receiveCurrencyGraphData |-> receive]

RichHistories(cat) ==
    IF cat = "currency"
    THEN {CurrencyHistory(p, r) : p \in SeqsUpTo(PayEntries, MaxHist), r \in SeqsUpTo(ReceiveEntries, 1)}
    ELSE SeqsUpTo(ListEntries, MaxHist)

QuietHistory(cat) ==
    IF cat = "currency"
    THEN CurrencyHistory(<<Entry(Whole(1), Num(50, 1), Whole(3))>>, <<>>)
    ELSE <<Entry(Whole(1), Whole(5), Whole(1))>>

QuietCatalog == <<[name |-> "B", id |-> Whole(3)]>>

QuietStore(cat) == SetToBag({SeedRow(cat, 1, "B", 0)})

Details == [name : EntityNames, id : {Absent} \cup {Whole(i) : i \in ApiIds}] \cup {Null}

\* The focus category: entity A (id 2) with any history and any stored days.
InitHistories(focus) ==
    /\ catalog = [c \in CategorySet |->
                    IF c = focus THEN <<[name |-> "A", id |-> Whole(2)]>> \o QuietCatalog
                    ELSE QuietCatalog]
    /\ \E h \in RichHistories(focus) :
          history = [c \in CategorySet |->
                        [i \in ApiIds |-> IF c = focus /\ i = 2 THEN h ELSE QuietHistory(c)]]
    /\ \E stored \in SUBSET (0..MaxDaysBack) :
          store = [c \in CategorySet |->
                      IF c = focus
                      THEN QuietStore(c)
                           (+) SetToBag({SeedRow(c, 1, "A", 0 - d) : d \in stored})
                           (+) SetToBag({SeedRow(c, 1, "A", 0 - (MaxDaysBack + 2)),
                                         SeedRow(c, 2, "A", 0)})
                      ELSE QuietStore(c)]

\* The focus category: any catalog and any stored names.
InitCatalogs(focus) ==
    /\ \E details \in SeqsUpTo(Details, 2) :
          catalog = [c \in CategorySet |-> IF c = focus THEN details ELSE QuietCatalog]
    /\ history = [c \in CategorySet |-> [i \in ApiIds |-> QuietHistory(c)]]
    /\ \E names \in SUBSET EntityNames :
          store = [c \in CategorySet |->
                      IF c = focus
                      THEN SetToBag({SeedRow(c, 1, n, 0) : n \in names})
                      ELSE QuietStore(c)]

NoFetch == [url |-> Url("", "", 0), ok |-> TRUE]

NoEntity == [cat |-> "", name |-> "", skipped |-> FALSE, fetchOk |-> TRUE,
             readOk |-> TRUE, insertOk |-> TRUE, raised |-> FALSE]

InitRun ==
    /\ run = 0
    /\ bpc = "idle"
    /\ ci = 1
    /\ name_to_id_map = <<>>
    /\ items_processed = 0
    /\ total_records = 0
    /\ results = [c \in CategorySet |-> <<0, 0>>]
    /\ faults = 0
    /\ appended = [c \in CategorySet |-> 0]
    /\ cleanFirstRun = FALSE
    /\ lastFetch = NoFetch
    /\ lastEntity = NoEntity
    /\ requested = EmptyBag

InitBackfill ==
    /\ today = 0
    /\ league_id = 1
    /\ max_days_back \in 1..MaxDaysBack
    /\ \E focus \in CategorySet : InitHistories(focus) \/ InitCatalogs(focus)
    /\ InitRun

\* detail.get('name') of a catalog entry without a name: None, which is no stored name.
NoName == ""

\* Payloads of entity A (id 2): of the expected shape with a usable entry for
\* yesterday, the same with an entry without daysAgo before it, only the entry
\* without daysAgo, and of another shape.
PayloadsOfA(cat) ==
    IF cat = "currency"
    THEN {QuietHistory(cat),
          CurrencyHistory(<<Entry(Absent, Num(50, 1), Whole(3)), Entry(Whole(1), Num(50, 1), Whole(3))>>,
                          <<>>),
          CurrencyHistory(<<Entry(Absent, Num(50, 1), Whole(3))>>, <<>>),
          NotADict}
    ELSE {QuietHistory(cat),
          <<Entry(Absent, Whole(5), Whole(1)), Entry(Whole(1), Whole(5), Whole(1))>>,
          <<Entry(Absent, Whole(5), Whole(1))>>,
          NotAList}

\* The catalog entries of entity A: complete, without id, without name.
EntriesOfA == {[name |-> "A", id |-> Whole(2)], [name |-> "A", id |-> Absent],
               [name |-> NoName, id |-> Whole(2)]}

\* The focus category lists A, then B; A's entry or A's history may be malformed.
\* The store holds A and B in every category, on a day beyond the horizon.
InitMalformed ==
    /\ today = 0
    /\ league_id = 1
    /\ max_days_back \in 1..MaxDaysBack
    /\ \E focus \in CategorySet, detail \in EntriesOfA :
          /\ catalog = [c \in CategorySet |->
                           IF c = focus THEN <<detail>> \o QuietCatalog ELSE QuietCatalog]
          /\ \E h \in PayloadsOfA(focus) :
                history = [c \in CategorySet |->
                              [i \in ApiIds |-> IF c = focus /\ i = 2 THEN h ELSE QuietHistory(c)]]
    /\ store = [c \in CategorySet |->
                    SetToBag({SeedRow(c, 1, n, 0 - (MaxDaysBack + 2)) : n \in {"A", "B"}})]
    /\ InitRun

\* The processes of a race.
Procs == {1, 2}

\* main has reached "while True" for the first time (line 349).
LoopAtHead ==
    [at |-> "head", naps |-> 0, caught |-> FALSE, interrupted |-> FALSE, disposed |-> FALSE,
     backfilled |-> FALSE]

\* The wrapper of with_retry(3) before it is invoked.  calls: how each call of the
\* function ended, in order; sleeps: the backoff sleeps, in order; outcome: the
\* number of the call whose result is returned or whose exception leaves the
\* wrapper (0: no call's).
NotInvoked ==
    [at |-> "idle", max_retries |-> 3, attempt |-> 0, calls |-> <<>>, sleeps |-> <<>>,
     outcome |-> 0]

\* No status: the process has not exited.
Running == 0 - 1

\* An entry point that has not been started.
NotStarted ==
    [entry |-> "none", credentials |-> TRUE, league |-> TRUE, days |-> 1,
     list_leagues |-> FALSE, store_up |-> TRUE,
     at |-> "idle", exit_status |-> Running, connections |-> 0, upstream_requests |-> 0]

\* No with block of managed_transaction is open.
NoTxn == [at |-> "idle", writes |-> 0]

\* The state of the parts added below while the specification named does not
\* exercise them.
IdleMore(exercised) ==
    /\ exercised # "backoff" => (backoff_factor = 0 /\ slept = <<>>)
    /\ exercised # "league race" =>
          (name_unique = TRUE /\ racer = [p \in Procs |-> [at |-> "idle"]])
    /\ exercised # "backfill race" =>
          backfiller = [p \in Procs |-> [at |-> "idle", existing_dates |-> {}]]
    /\ exercised # "transaction" => (txn = NoTxn /\ txlog = <<>> /\ durable = 0)
    /\ exercised # "startup" => startup = NotStarted
    /\ exercised # "collector" => loop = LoopAtHead
    /\ exercised # "keys" => prev_url = NoCall.url
    /\ exercised # "retry" => wrapped = NotInvoked

\* Nothing but the client or the backfiller runs.
InitRestBut(exercised) ==
    /\ cycle_count = 0
    /\ csrc = 0
    /\ in_pay = NoEntry
    /\ in_receive = NoEntry
    /\ in_entry = NoEntry
    /\ out_record = NoRecord
    /\ leagues = <<>>
    /\ returned = <<>>
    /\ league_faults = 0
    /\ IdleMore(exercised)

InitRest == InitRestBut("")

\* No backfill: the state of the backfiller while only the client is exercised.
InitNoBackfill ==
    /\ today = 0
    /\ league_id = 1
    /\ max_days_back = MaxDaysBack
    /\ catalog = [c \in CategorySet |-> <<>>]
    /\ history = [c \in CategorySet |-> <<>>]
    /\ store = [c \in CategorySet |-> EmptyBag]
    /\ InitRun

(***************************************************************************)
(* The backfill run.  The backfiller calls requests.get itself; no step    *)
(* below touches the HTTP client's state.                                  *)
(***************************************************************************)
\* A request or a query may fail, at most MaxFaults times in a behaviour.
FaultCount(ok) == IF ok THEN 0 ELSE 1

\* HistoricalBackfiller(engine, league_name).backfill_all(max_days_back), at process
\* start or from the command line.  The constructor looks the league up and raises
\* ValueError when the league has no row or the query fails: backfill_all is not
\* entered then.
BeginRun ==
    /\ bpc \in {"idle", "done", "aborted", "unresolved"}
    /\ csrc = 0
    /\ run < MaxRuns
    /\ run' = run + 1
    /\ \E resolved \in BOOLEAN :
          /\ faults + FaultCount(resolved) <= MaxFaults
          /\ faults' = faults + FaultCount(resolved)
          /\ bpc' = IF resolved THEN "category" ELSE "unresolved"
    /\ ci' = 1
    /\ lastFetch' = NoFetch
    /\ name_to_id_map' = <<>>
    /\ items_processed' = 0
    /\ total_records' = 0
    /\ results' = [c \in CategorySet |-> <<0, 0>>]
    /\ appended' = [c \in CategorySet |-> 0]
    /\ cleanFirstRun' = (run = 1 /\ faults = 0)
    /\ requested' = EmptyBag
    /\ UNCHANGED <<upstreamVars, store, lastEntity, clientVars>>

StartRun == BeginRun /\ UNCHANGED restVars

\* A return of (records, items).
ReturnFromCategorySwapped(items, records) ==
    /\ results' = [results EXCEPT ![Categories[ci]] = <<records, items>>]
    /\ name_to_id_map' = <<>>
    /\ items_processed' = 0
    /\ total_records' = 0
    /\ IF ci < Len(Categories)
       THEN ci' = ci + 1 /\ bpc' = "category"
       ELSE ci' = ci /\ bpc' = "done"

\* backfill_<category> returns (items, records); backfill_all goes on.
ReturnFromCategory(items, records) ==
    /\ results' = [results EXCEPT ![Categories[ci]] = <<items, records>>]
    /\ name_to_id_map' = <<>>
    /\ items_processed' = 0
    /\ total_records' = 0
    /\ IF ci < Len(Categories)
       THEN ci' = ci + 1 /\ bpc' = "category"
       ELSE ci' = ci /\ bpc' = "done"

\* backfill_<category> up to its loop: catalog, stored names, matching.
BeginCategory ==
    /\ bpc = "category"
    /\ \E fetchOk \in BOOLEAN, namesOk \in BOOLEAN :
          LET cat == Categories[ci]
              details == IF fetchOk THEN catalog[cat] ELSE <<>>
              existing_names == GetExistingNames(cat, namesOk)
              map == IF MapRaises(details)
                     THEN <<>>
                     ELSE MapNamesToIds(details, existing_names, <<>>)
          IN  /\ (details = <<>>) => namesOk      \* the names are not queried then
              /\ faults + FaultCount(fetchOk) + FaultCount(namesOk) <= MaxFaults
              /\ faults' = faults + FaultCount(fetchOk) + FaultCount(namesOk)
              /\ lastFetch' = [url |-> CatalogUrl(cat), ok |-> fetchOk]
              /\ requested' = requested (+) SetToBag({<<cat, "">>})
              /\ IF details = <<>>
                 THEN ReturnFromCategory(0, 0)
                 ELSE IF MapRaises(details)
                 THEN \* the exception leaves backfill_<category> and backfill_all
                      /\ bpc' = "aborted"
                      /\ UNCHANGED <<ci, results, name_to_id_map, items_processed,
                                     total_records>>
                 ELSE IF map = <<>>
                 THEN ReturnFromCategory(0, 0)
                 ELSE /\ name_to_id_map' = map
                      /\ items_processed' = 0
                      /\ total_records' = 0
                      /\ bpc' = "entities"
                      /\ UNCHANGED <<ci, results>>
    /\ UNCHANGED <<upstreamVars, store, run, appended, cleanFirstRun, lastEntity, clientVars, restVars>>

\* A test that skips nothing.
IsBaseCurrencyNever(cat, api_id) == FALSE

\* "if api_id == 1: continue", in backfill_currency only.
IsBaseCurrency(cat, api_id) == cat = "currency" /\ api_id = 1

\* One iteration of the loop over name_to_id_map.items().
BackfillEntity ==
    /\ bpc = "entities"
    /\ name_to_id_map # <<>>
    /\ LET cat == Categories[ci]
           name == Head(name_to_id_map)[1]
           api_id == Head(name_to_id_map)[2]
       IN  IF IsBaseCurrency(cat, api_id)
           THEN /\ lastEntity' = [cat |-> cat, name |-> name, skipped |-> TRUE,
                                  fetchOk |-> TRUE, readOk |-> TRUE, insertOk |-> TRUE,
                                  raised |-> FALSE]
                /\ UNCHANGED <<store, items_processed, total_records, faults, appended,
                               lastFetch, requested>>
           ELSE \E fetchOk \in BOOLEAN, insertOk \in BOOLEAN,
                   failDays \in SUBSET (IF cat = "currency" THEN CurrencyDays(api_id) ELSE {0}) :
                  LET out == IF cat = "currency"
                             THEN BackfillSingleCurrency(name, api_id, fetchOk, failDays, insertOk)
                             ELSE BackfillSingleListed(cat, name, api_id, fetchOk,
                                                       failDays = {}, insertOk)
                      newFaults == FaultCount(fetchOk) + FaultCount(insertOk)
                                       + Cardinality(failDays)
                  IN  /\ ~fetchOk => failDays = {}
                      /\ ~insertOk <=> out.insertFailed     \* only an attempted insert fails
                      /\ faults + newFaults <= MaxFaults
                      /\ faults' = faults + newFaults
                      /\ lastFetch' = [url |-> HistoryUrl(cat, api_id), ok |-> fetchOk]
                      /\ requested' = requested (+) SetToBag({<<cat, name>>})
                      /\ lastEntity' = [cat |-> cat, name |-> name, skipped |-> FALSE,
                                        fetchOk |-> fetchOk, readOk |-> failDays = {},
                                        insertOk |-> insertOk, raised |-> out.t = "raise"]
                      /\ store' = [store EXCEPT ![cat] = @ (+) out.rows]
                      /\ appended' = [appended EXCEPT ![cat] = @ + BagCardinality(out.rows)]
                      /\ IF out.t = "return" /\ out.n > 0
                         THEN /\ total_records' = total_records + out.n
                              /\ items_processed' = items_processed + 1
                         ELSE UNCHANGED <<total_records, items_processed>>
    /\ name_to_id_map' = Tail(name_to_id_map)
    /\ UNCHANGED <<upstreamVars, run, bpc, ci, results, cleanFirstRun, clientVars, restVars>>

\* The loop is over: backfill_<category> returns its totals.
EndCategory ==
    /\ bpc = "entities"
    /\ name_to_id_map = <<>>
    /\ ReturnFromCategory(items_processed, total_records)
    /\ UNCHANGED <<upstreamVars, store, run, faults, appended, cleanFirstRun, lastFetch,
                   lastEntity, requested, clientVars, restVars>>

Init == InitClient /\ InitNoBackfill /\ InitRest

Next == Tick \/ GetBegin \/ Request \/ Sleep

Spec == Init /\ [][Next]_vars

(***************************************************************************)
(* The same client, with the URL of the previous get remembered, to tell   *)
(* which URL the breaker state of a key comes from.                        *)
(***************************************************************************)
InitKeys ==
    /\ InitClient
    /\ circuit_breaker_timeout = MaxCbTimeout
    /\ InitNoBackfill
    /\ InitRestBut("keys")
    /\ prev_url = NoCall.url

GetBeginAfter ==
    /\ BeginGet
    /\ prev_url' = call.url
    /\ UNCHANGED <<collectorVars, reconcilerVars, leagueVars, raceVars, txVars, startup, loop, wrapped>>

NextKeys == Tick \/ GetBeginAfter \/ Request \/ Sleep

SpecKeys == InitKeys /\ [][NextKeys]_vars

\* The backfiller, beside a client that nothing calls.
InitIdleClient ==
    /\ now = 0
    /\ max_retries = MaxRetriesBound
    /\ circuit_breaker_threshold = 1
    /\ circuit_breaker_timeout = MaxCbTimeout
    /\ enable_circuit_breaker = TRUE
    /\ failure_counts = EmptyDict
    /\ circuit_open_until = EmptyDict
    /\ pc = "idle"
    /\ call = NoCall
    /\ watched = GetCircuitKey(CatalogUrl("currency"))
    /\ streak = 0
    /\ pattern = 0
    /\ tripAt = NoTime

InitBackfillRun == InitIdleClient /\ InitBackfill /\ InitRest

NextBackfill == StartRun \/ BeginCategory \/ BackfillEntity \/ EndCategory

SpecBackfill == InitBackfillRun /\ [][NextBackfill]_vars

\* Backfill runs over upstream payloads that may be malformed.
InitMalformedRun == InitIdleClient /\ InitMalformed /\ InitRest

SpecMalformed == InitMalformedRun /\ [][NextBackfill]_vars

(***************************************************************************)
(* The value reconciler on its own: _process_currency_entry_both,          *)
(* _process_card_entry and _process_item_entry applied to one day's        *)
(* entries of any shape.                                                   *)
(***************************************************************************)
Pending == [t |-> "pending"]

ValuesIn ==
    {Absent, Null, Whole(0), Whole(0 - 2), Whole(3), Whole(5), Whole(50), Whole(100),
     Num(8, 1000)}

CountsIn == {Absent, Null, Whole(0), Whole(5)}

EntriesIn == {Entry(Whole(0), v, c) : v \in ValuesIn, c \in CountsIn}

InitReconciler ==
    /\ \/ /\ in_pay \in EntriesIn \cup {NoEntry}
          /\ in_receive \in EntriesIn \cup {NoEntry}
          /\ ~(in_pay = NoEntry /\ in_receive = NoEntry)
          /\ in_entry = NoEntry
       \/ /\ in_pay = NoEntry
          /\ in_receive = NoEntry
          /\ in_entry \in EntriesIn
    /\ out_record = Pending
    /\ cycle_count = 0
    /\ csrc = 0
    /\ leagues = <<>>
    /\ returned = <<>>
    /\ league_faults = 0
    /\ IdleMore("")

ReconcileCurrency ==
    /\ out_record = Pending
    /\ in_entry = NoEntry
    /\ out_record' = ProcessCurrencyEntryBoth(in_pay, in_receive, "A", today)
    /\ UNCHANGED <<in_pay, in_receive, in_entry, collectorVars, leagueVars, moreVars, clientVars,
                   backfillVars>>

ReconcileCard ==
    /\ out_record = Pending
    /\ in_entry # NoEntry
    /\ out_record' = ProcessCardEntry(in_entry, "A", today)
    /\ UNCHANGED <<in_pay, in_receive, in_entry, collectorVars, leagueVars, moreVars, clientVars,
                   backfillVars>>

ReconcileItem ==
    /\ out_record = Pending
    /\ in_entry # NoEntry
    /\ out_record' = ProcessItemEntry(in_entry, "A", today)
    /\ UNCHANGED <<in_pay, in_receive, in_entry, collectorVars, leagueVars, moreVars, clientVars,
                   backfillVars>>

InitReconcile == InitIdleClient /\ InitNoBackfill /\ InitReconciler

NextReconcile == ReconcileCurrency \/ ReconcileCard \/ ReconcileItem

SpecReconcile == InitReconcile /\ [][NextReconcile]_vars

(***************************************************************************)
(* The league registry: LeagueManager over the leagues table.              *)
(***************************************************************************)
LeagueNames == {"Keepers", "Settlers"}

\* None, as a league id (ids are positive).
NoId == 0

RowsNamed(table, league_name) == {i \in DOMAIN table : table[i].league_name = league_name}

\* A lookup that never finds the row.
GetLeagueIdNeverFinds(table, league_name, ok) == NoId

\* get_league_id: the id of the row with that name, None when there is none or the
\* query fails.
GetLeagueId(table, league_name, ok) ==
    IF ok /\ RowsNamed(table, league_name) # {}
    THEN table[CHOOSE i \in RowsNamed(table, league_name) :
                  \A j \in RowsNamed(table, league_name) : i <= j].id
    ELSE NoId

\* INSERT INTO leagues ... RETURNING id, on a table whose league_name is unique:
\* the new table and the new id, or the table as it is and None when the
\* statement raises.
InsertLeague(table, league_name, status, start_date, ok) ==
    IF ok /\ RowsNamed(table, league_name) = {}
    THEN [table |-> Append(table, [id |-> Len(table) + 1, league_name |-> league_name,
                                   status |-> status, start_date |-> start_date]),
          id |-> Len(table) + 1]
    ELSE [table |-> table, id |-> NoId]

InitLeagues ==
    /\ leagues \in {<<>>, <<[id |-> 1, league_name |-> "Keepers", status |-> "Active",
                            start_date |-> 0 - 5]>>}
    /\ returned = <<>>
    /\ league_faults = 0
    /\ IdleMore("")
    /\ cycle_count = 0
    /\ csrc = 0
    /\ in_pay = NoEntry
    /\ in_receive = NoEntry
    /\ in_entry = NoEntry
    /\ out_record = NoRecord

\* get_or_create_league(league_name, status, start_date); start_date NoId stands
\* for None.
GetOrCreateLeague ==
    /\ Len(returned) < MaxCalls
    /\ \E league_name \in LeagueNames, status \in {"Active", "Expired"},
          start_date \in {NoId, 0 - 5}, lookupOk \in BOOLEAN, insertOk \in BOOLEAN :
          LET found == GetLeagueId(leagues, league_name, lookupOk)
              insert_start_date == IF start_date # NoId THEN start_date ELSE today
              inserted == InsertLeague(leagues, league_name, status, insert_start_date, insertOk)
          IN  /\ found # NoId => insertOk       \* no INSERT is made then
              /\ league_faults + FaultCount(lookupOk) + FaultCount(insertOk) <= MaxFaults
              /\ league_faults' = league_faults + FaultCount(lookupOk) + FaultCount(insertOk)
              /\ IF found # NoId
                 THEN /\ UNCHANGED leagues
                      /\ returned' = Append(returned, [league_name |-> league_name, id |-> found,
                                                       ok |-> lookupOk, status |-> status,
                                                       start_date |-> start_date])
                 ELSE /\ leagues' = inserted.table
                      /\ returned' = Append(returned, [league_name |-> league_name,
                                                       id |-> inserted.id,
                                                       ok |-> lookupOk /\ insertOk,
                                                       status |-> status,
                                                       start_date |-> start_date])
    /\ UNCHANGED <<collectorVars, reconcilerVars, moreVars, clientVars, backfillVars>>

\* An UPDATE that also resets start_date.
SetStatusAndStartDate(table, league_name, status) ==
    [i \in DOMAIN table |->
        IF table[i].league_name = league_name
        THEN [table[i] EXCEPT !.status = status, !.start_date = today]
        ELSE table[i]]

\* UPDATE leagues SET status = :status WHERE league_name = :league_name
SetStatus(table, league_name, status) ==
    [i \in DOMAIN table |->
        IF table[i].league_name = league_name
        THEN [table[i] EXCEPT !.status = status]
        ELSE table[i]]

\* update_league_status: the only change a row undergoes.
UpdateLeagueStatus ==
    /\ \E i \in DOMAIN leagues, status \in {"Active", "Expired"} :
          /\ leagues[i].status # status
          /\ leagues' = SetStatus(leagues, leagues[i].league_name, status)
    /\ UNCHANGED <<returned, league_faults, collectorVars, reconcilerVars, moreVars, clientVars,
                   backfillVars>>

InitLeague == InitIdleClient /\ InitNoBackfill /\ InitLeagues

NextLeague == GetOrCreateLeague \/ UpdateLeagueStatus

SpecLeague == InitLeague /\ [][NextLeague]_vars

(***************************************************************************)
(* The collector process: live collection cycles (collector.main) between  *)
(* backfill runs, one after the other in a single process.                 *)
(***************************************************************************)
\* time.sleep(1800) between two cycles.
SleepSeconds == 1800

CollectedLeague == "Keepers"

\* The instant of the live fetches of a cycle; every cycle of a behaviour falls
\* on the day `today`.
FetchInstant(cycle) == [date |-> today, secs |-> SleepSeconds * cycle]

\* The names on the lines of the current-snapshot overview.
LiveNames(cat) ==
    {catalog[cat][i].name : i \in {j \in DOMAIN catalog[cat] : IsObject(catalog[cat][j])}}

\* parse_<source> and the columns save_to_database adds: one row per line, the
\* timestamp being the store's default, the instant of the insert.
ParseLive(cat, lid, ts) ==
    SetToBag({[SeedRow(cat, lid, name, DateOf(ts)) EXCEPT !.timestamp = ts] :
                 name \in LiveNames(cat)})

\* save_to_database: df.to_sql(..., if_exists='append'); False when it fails.
SaveToDatabase(table, df, ok) == IF ok THEN table (+) df ELSE table

InitCollector ==
    /\ today = 0
    /\ league_id = 1
    /\ max_days_back \in 1..MaxDaysBack
    /\ catalog = [c \in CategorySet |-> <<[name |-> "A", id |-> Whole(2)]>> \o QuietCatalog]
    /\ history = [c \in CategorySet |-> [i \in ApiIds |-> QuietHistory(c)]]
    /\ \E earlier \in BOOLEAN :      \* rows of an earlier lifetime of the collector
          store = [c \in CategorySet |->
                      IF earlier
                      THEN SetToBag({SeedRow(c, 1, n, 0 - (MaxDaysBack + 2)) : n \in {"A", "B"}})
                      ELSE EmptyBag]
    /\ InitRun
    /\ cycle_count = 0
    /\ csrc = 0
    /\ in_pay = NoEntry
    /\ in_receive = NoEntry
    /\ in_entry = NoEntry
    /\ out_record = NoRecord
    /\ leagues = <<[id |-> 1, league_name |-> CollectedLeague, status |-> "Active",
                    start_date |-> 0 - 5]>>
    /\ returned = <<>>
    /\ league_faults = 0
    /\ loop = LoopAtHead
    /\ IdleMore("collector")

\* An error that ends the loop.
OnCycleErrorBreak == "stopped"

\* "except Exception" of the loop, lines 398-399: the error is logged, and the
\* sleep of line 402 follows.
OnCycleError == "sleeping"

\* The head of the loop of main: cycle_count += 1, get_leagues_to_collect, then
\* the sources in turn.
StartCycle ==
    /\ loop.at = "head"
    /\ csrc = 0
    /\ bpc \in {"idle", "done", "aborted", "unresolved"}
    /\ cycle_count < MaxCycles
    /\ cycle_count' = cycle_count + 1
    /\ \E leaguesOk \in BOOLEAN :
          /\ faults + FaultCount(leaguesOk) <= MaxFaults
          /\ faults' = faults + FaultCount(leaguesOk)
          /\ IF leaguesOk
             THEN /\ csrc' = 1
                  /\ loop' = [loop EXCEPT !.at = "cycle"]
             ELSE /\ csrc' = 0
                  /\ loop' = [loop EXCEPT !.at = OnCycleError, !.caught = TRUE]
    /\ UNCHANGED <<reconcilerVars, leagueVars, raceVars, txVars, startup, clientVars,
                   upstreamVars, store, runVars, appended, cleanFirstRun, lastFetch,
                   lastEntity, requested, prev_url, wrapped>>

\* collect_data_for_source for a current league (is_historical = False).
CollectSource ==
    /\ loop.at = "cycle"
    /\ csrc \in DOMAIN Categories
    /\ \E lookupOk \in BOOLEAN, fetchOk \in BOOLEAN, saveOk \in BOOLEAN :
          LET cat == Categories[csrc]
              found == GetLeagueId(leagues, CollectedLeague, lookupOk)
              inserted == InsertLeague(leagues, CollectedLeague, "Active", today, TRUE)
              lid == IF found # NoId THEN found ELSE inserted.id
              df == IF fetchOk THEN ParseLive(cat, lid, FetchInstant(cycle_count))
                    ELSE EmptyBag
          IN  /\ ~lookupOk => fetchOk /\ saveOk   \* neither is reached then
              /\ ~fetchOk => saveOk
              /\ faults + FaultCount(lookupOk) + FaultCount(fetchOk) + FaultCount(saveOk)
                    <= MaxFaults
              /\ faults' = faults + FaultCount(lookupOk) + FaultCount(fetchOk)
                              + FaultCount(saveOk)
              /\ leagues' = IF found # NoId THEN leagues ELSE inserted.table
              /\ store' = IF lid # NoId /\ df # EmptyBag
                          THEN [store EXCEPT ![cat] = SaveToDatabase(store[cat], df, saveOk)]
                          ELSE store
    /\ IF csrc < Len(Categories)
       THEN csrc' = csrc + 1 /\ UNCHANGED loop
       ELSE csrc' = 0 /\ loop' = [loop EXCEPT !.at = "sleeping"]
    /\ UNCHANGED <<cycle_count, reconcilerVars, returned, league_faults, raceVars, txVars,
                   startup, clientVars,
                   upstreamVars, run, bpc, ci, name_to_id_map, items_processed,
                   total_records, results, appended, cleanFirstRun, lastFetch, lastEntity,
                   requested, prev_url, wrapped>>

\* run_backfill_on_start(), line 342: once, before the loop, and only when
\* RUN_BACKFILL_ON_START is set.  Whatever the run raises is caught and logged
\* (lines 327-329).
RunBackfillOnStart ==
    /\ loop.at = "head"
    /\ cycle_count = 0
    /\ ~loop.backfilled
    /\ BeginRun
    /\ loop' = [loop EXCEPT !.backfilled = TRUE]
    /\ UNCHANGED <<collectorVars, reconcilerVars, leagueVars, raceVars, txVars, startup, prev_url, wrapped>>

\* time.sleep(1800), line 402, returns.
SleepElapsed ==
    /\ loop.at = "sleeping"
    /\ loop' = [loop EXCEPT !.at = "head", !.naps = @ + 1]
    /\ UNCHANGED <<collectorVars, reconcilerVars, leagueVars, raceVars, txVars, startup,
                   clientVars, backfillVars, prev_url, wrapped>>

\* KeyboardInterrupt.  Inside the try of lines 353-392 it is caught (line 394):
\* break, and engine.dispose() at lines 405-406.  Raised by the statements of the
\* loop outside the try, time.sleep(1800) above all, it leaves main uncaught.
Interrupt ==
    /\ loop.at \in {"head", "cycle", "sleeping"}
    /\ loop' = IF loop.at = "cycle"
               THEN [loop EXCEPT !.at = "stopped", !.interrupted = TRUE, !.disposed = TRUE]
               ELSE [loop EXCEPT !.at = "killed", !.interrupted = TRUE]
    /\ csrc' = 0
    /\ UNCHANGED <<cycle_count, reconcilerVars, leagueVars, raceVars, txVars, startup,
                   clientVars, backfillVars, prev_url, wrapped>>

InitCollect == InitIdleClient /\ InitCollector

NextCollect ==
    \/ StartCycle
    \/ CollectSource
    \/ SleepElapsed
    \/ Interrupt
    \/ RunBackfillOnStart
    \/ BeginCategory
    \/ BackfillEntity
    \/ EndCategory

SpecCollector == InitCollect /\ [][NextCollect]_vars

(***************************************************************************)
(* The cycles of a collector whose league is processed as historical       *)
(* (is_historical: a league of the wiki list, COLLECT_HISTORICAL set): its *)
(* sources are the bulk dumps of the league.                               *)
(***************************************************************************)
HistoricalLeagues == <<"Settlers", "Mercenaries">>

\* The sources of a cycle, league by league: source k of the cycle is category
\* SourceCategory(k) of league SourceLeague(k).
HistoricalSources == 1..(Len(HistoricalLeagues) * Len(Categories))
SourceLeague(k) == HistoricalLeagues[((k - 1) \div Len(Categories)) + 1]
SourceCategory(k) == Categories[((k - 1) % Len(Categories)) + 1]

\* parse_historical_<source>: the rows of the dump, which carry the dates of the
\* dump, with the league_id save_to_database gives them.
ParseHistorical(cat, lid) ==
    SetToBag({[SeedRow(cat, lid, n, 0 - d) EXCEPT !.timestamp = Midnight(0 - d)] :
                 n \in {"A", "B"}, d \in {3, 4}})

\* _check_if_data_exists_for_league_and_table: SELECT EXISTS(...), and False when
\* the query fails.
CheckIfDataExists(table, lid, ok) ==
    ok /\ \E r \in BagToSet(table) : r.league_id = lid

InitHistorical ==
    /\ InitCollector
    /\ store = [c \in CategorySet |-> EmptyBag]

\* collect_data_for_source for a league with is_historical set.
CollectHistoricalSource ==
    /\ loop.at = "cycle"
    /\ csrc \in HistoricalSources
    /\ \E lookupOk \in BOOLEAN, existsOk \in BOOLEAN, fetchOk \in BOOLEAN, saveOk \in BOOLEAN :
          LET cat == SourceCategory(csrc)
              league_name == SourceLeague(csrc)
              found == GetLeagueId(leagues, league_name, lookupOk)
              inserted == InsertLeague(leagues, league_name, "Expired", 0 - 5, TRUE)
              lid == IF found # NoId THEN found ELSE inserted.id
              exists == lid # NoId /\ CheckIfDataExists(store[cat], lid, existsOk)
              df == IF fetchOk THEN ParseHistorical(cat, lid) ELSE EmptyBag
          IN  /\ ~lookupOk => existsOk /\ fetchOk /\ saveOk   \* none is reached then
              /\ (existsOk /\ exists) => fetchOk /\ saveOk
              /\ ~fetchOk => saveOk
              /\ faults + FaultCount(lookupOk) + FaultCount(existsOk) + FaultCount(fetchOk)
                    + FaultCount(saveOk) <= MaxFaults
              /\ faults' = faults + FaultCount(lookupOk) + FaultCount(existsOk)
                              + FaultCount(fetchOk) + FaultCount(saveOk)
              /\ leagues' = IF found # NoId THEN leagues ELSE inserted.table
              /\ store' = IF lid # NoId /\ ~exists /\ df # EmptyBag
                          THEN [store EXCEPT ![cat] = SaveToDatabase(store[cat], df, saveOk)]
                          ELSE store
    /\ IF csrc < Len(HistoricalLeagues) * Len(Categories)
       THEN csrc' = csrc + 1 /\ UNCHANGED loop
       ELSE csrc' = 0 /\ loop' = [loop EXCEPT !.at = "sleeping"]
    /\ UNCHANGED <<cycle_count, reconcilerVars, returned, league_faults, raceVars, txVars,
                   startup, clientVars,
                   upstreamVars, run, bpc, ci, name_to_id_map, items_processed,
                   total_records, results, appended, cleanFirstRun, lastFetch, lastEntity,
                   requested, prev_url, wrapped>>

InitHistoricalRun == InitIdleClient /\ InitHistorical

NextHistorical == StartCycle \/ CollectHistoricalSource \/ SleepElapsed

SpecHistorical == InitHistoricalRun /\ [][NextHistorical]_vars

(***************************************************************************)
(* The backoff of get, lines 259-264, on its own: the sleeps of one get     *)
(* whose attempts all fail with a retryable error.  Durations are whole     *)
(* multiples of 1/JitterSteps second.                                       *)
(***************************************************************************)
RECURSIVE Pow2(_)
Pow2(n) == IF n = 0 THEN 1 ELSE 2 * Pow2(n - 1)

\* random.uniform(0, 1): a + (b - a) * random(), with random() in [0, 1).
Uniform01 == 0..(JitterSteps - 1)

\* A backoff that grows linearly.
DeterministicLinear(attempt) == backoff_factor * (attempt + 1)

\* self.backoff_factor * (2 ** attempt)
Deterministic(attempt) == backoff_factor * Pow2(attempt)

\* sleep_time after the failure of the attempt with loop index `attempt`.
SleepTime(attempt, jitter) == Deterministic(attempt) + jitter

InitBackoff ==
    /\ backoff_factor \in {0, 1, JitterSteps, 2 * JitterSteps + 1}
    /\ slept = <<>>
    /\ now = 0
    /\ max_retries \in 0..MaxSleeps
    /\ circuit_breaker_threshold = 1
    /\ circuit_breaker_timeout = MaxCbTimeout
    /\ enable_circuit_breaker = TRUE
    /\ failure_counts = EmptyDict
    /\ circuit_open_until = EmptyDict
    /\ pc = "idle"
    /\ call = NoCall
    /\ watched = GetCircuitKey(CatalogUrl("currency"))
    /\ streak = 0
    /\ pattern = 0
    /\ tripAt = NoTime
    /\ InitNoBackfill
    /\ cycle_count = 0
    /\ csrc = 0
    /\ in_pay = NoEntry
    /\ in_receive = NoEntry
    /\ in_entry = NoEntry
    /\ out_record = NoRecord
    /\ leagues = <<>>
    /\ returned = <<>>
    /\ league_faults = 0
    /\ IdleMore("backoff")

\* One failed attempt that is not the last, and the sleep that follows it.
BackoffSleep ==
    /\ SleepsBeforeRetry(Len(slept))
    /\ \E jitter \in Uniform01 :
          slept' = Append(slept, [attempt |-> Len(slept),
                                  deterministic |-> Deterministic(Len(slept)),
                                  sleep_time |-> SleepTime(Len(slept), jitter)])
    /\ UNCHANGED <<backoff_factor, leagueRaceVars, backfiller, txVars, startup, loop, clientVars, backfillVars, collectorVars,
                   reconcilerVars, leagueVars, prev_url, wrapped>>

NextBackoff == BackoffSleep

SpecBackoff == InitBackoff /\ [][NextBackoff]_vars

(***************************************************************************)
(* Two processes call get_or_create_league at the same time: the lookup    *)
(* and the INSERT of a call are two statements on two connections, and the *)
(* other process may run between them.                                     *)
(***************************************************************************)
\* An INSERT that leaves the table alone when the name is there.
InsertLeagueOnConflictNothing(table, league_name, status, start_date, ok) ==
    InsertLeague(table, league_name, status, start_date, ok)

\* INSERT INTO leagues ... RETURNING id on a table that has no constraint on
\* league_name: the statement of lines 84-93 names no conflict target.
InsertLeagueUnconstrained(table, league_name, status, start_date, ok) ==
    IF ok
    THEN [table |-> Append(table, [id |-> Len(table) + 1, league_name |-> league_name,
                                   status |-> status, start_date |-> start_date]),
          id |-> Len(table) + 1]
    ELSE [table |-> table, id |-> NoId]

InitLeagueRace ==
    /\ name_unique \in BOOLEAN
    /\ racer = [p \in Procs |-> [at |-> "start"]]
    /\ leagues \in {<<>>, <<[id |-> 1, league_name |-> "Keepers", status |-> "Active",
                            start_date |-> 0 - 5]>>}
    /\ returned = <<>>
    /\ league_faults = 0
    /\ cycle_count = 0
    /\ csrc = 0
    /\ in_pay = NoEntry
    /\ in_receive = NoEntry
    /\ in_entry = NoEntry
    /\ out_record = NoRecord
    /\ IdleMore("league race")

\* league_id = self.get_league_id(league_name), lines 76-79
RaceLookup(p) ==
    /\ racer[p].at = "start"
    /\ \E league_name \in LeagueNames, status \in {"Active", "Expired"} :
          LET found == GetLeagueId(leagues, league_name, TRUE)
          IN  racer' = [racer EXCEPT ![p] =
                            [at |-> IF found # NoId THEN "done" ELSE "insert",
                             league_name |-> league_name, status |-> status,
                             looked |-> found, id |-> found]]
    /\ UNCHANGED <<name_unique, backoffVars, backfiller, txVars, startup, loop, collectorVars, reconcilerVars,
                   leagueVars, clientVars, backfillVars, prev_url, wrapped>>

\* The INSERT and its commit, lines 81-95; an IntegrityError returns None (97-100).
RaceInsert(p) ==
    /\ racer[p].at = "insert"
    /\ LET inserted == IF name_unique
                       THEN InsertLeague(leagues, racer[p].league_name, racer[p].status,
                                         today, TRUE)
                       ELSE InsertLeagueUnconstrained(leagues, racer[p].league_name,
                                                      racer[p].status, today, TRUE)
       IN  /\ leagues' = inserted.table
           /\ racer' = [racer EXCEPT ![p].at = "done", ![p].id = inserted.id]
    /\ UNCHANGED <<name_unique, returned, league_faults, backoffVars, backfiller, txVars,
                   startup, loop, collectorVars, reconcilerVars, clientVars, backfillVars, prev_url, wrapped>>

InitLeagueRaceRun == InitIdleClient /\ InitNoBackfill /\ InitLeagueRace

NextLeagueRace == \E p \in Procs : RaceLookup(p) \/ RaceInsert(p)

SpecLeagueRace == InitLeagueRaceRun /\ [][NextLeagueRace]_vars

(***************************************************************************)
(* Two backfill processes work on the same card of the same league at the  *)
(* same time: each reads the stored dates, then fetches, filters and       *)
(* inserts, and the other process may run in between.                      *)
(***************************************************************************)
RacedCard == "A"

InitBackfillRace ==
    /\ today = 0
    /\ league_id = 1
    /\ max_days_back \in 1..MaxDaysBack
    /\ InitHistories("divination_cards")
    /\ InitRun
    /\ backfiller = [p \in Procs |-> [at |-> "start", existing_dates |-> {}]]
    /\ cycle_count = 0
    /\ csrc = 0
    /\ in_pay = NoEntry
    /\ in_receive = NoEntry
    /\ in_entry = NoEntry
    /\ out_record = NoRecord
    /\ leagues = <<>>
    /\ returned = <<>>
    /\ league_faults = 0
    /\ IdleMore("backfill race")

\* existing_dates = self._get_existing_card_dates(card_name), line 498
RaceReadDates(p) ==
    /\ backfiller[p].at = "start"
    /\ backfiller' = [backfiller EXCEPT
                        ![p] = [at |-> "read",
                                existing_dates |->
                                    GetExistingDates("divination_cards", RacedCard, TRUE)]]
    /\ UNCHANGED <<backoffVars, leagueRaceVars, txVars, startup, loop, collectorVars, reconcilerVars,
                   leagueVars, clientVars, backfillVars, prev_url, wrapped>>

\* The rest of _backfill_single_card, lines 501-531: fetch, filter, insert.
RaceInsertMissing(p) ==
    /\ backfiller[p].at = "read"
    /\ LET records_to_insert ==
               ListRecords("divination_cards", history["divination_cards"][2], RacedCard,
                           backfiller[p].existing_dates)
           out == IF records_to_insert # <<>>
                  THEN InsertRecords(SeqToBag(records_to_insert), TRUE)
                  ELSE Returned(0, EmptyBag)
       IN  store' = [store EXCEPT !["divination_cards"] = @ (+) out.rows]
    /\ backfiller' = [backfiller EXCEPT ![p].at = "done"]
    /\ UNCHANGED <<upstreamVars, runVars, backfillObservers, backoffVars, leagueRaceVars,
                   txVars, startup, loop, collectorVars, reconcilerVars, leagueVars, clientVars, prev_url, wrapped>>

InitBackfillRaceRun == InitIdleClient /\ InitBackfillRace

NextBackfillRace == \E p \in Procs : RaceReadDates(p) \/ RaceInsertMissing(p)

SpecBackfillRace == InitBackfillRaceRun /\ [][NextBackfillRace]_vars

(***************************************************************************)
(* managed_transaction(engine), connection_manager.py lines 428-453: the   *)
(* with blocks a caller runs one after the other, each body making some    *)
(* writes; connecting, beginning, the body and the commit can each fail.   *)
(***************************************************************************)
\* The except and finally clauses, lines 446-453, on an error raised while `conn`
\* and `trans` are bound or not: "if conn: trans.rollback()" then "raise".  With
\* conn bound and trans unbound, trans.rollback() raises UnboundLocalError, and
\* that error leaves instead of the one being handled.
HandleError(conn_bound, trans_bound, error) ==
    [rolled_back |-> conn_bound /\ trans_bound,
     propagated |-> IF conn_bound /\ ~trans_bound THEN "UnboundLocalError" ELSE error,
     closed |-> conn_bound]

\* How a block ended: what was raised in it, what left it, what was done.
Ended(error, handled, committed, writes) ==
    [error |-> error, propagated |-> handled.propagated, committed |-> committed,
     rolled_back |-> handled.rolled_back, closed |-> handled.closed, writes |-> writes]

NotHandled == [rolled_back |-> FALSE, propagated |-> "none", closed |-> TRUE]

InitTransaction ==
    /\ txn = NoTxn
    /\ txlog = <<>>
    /\ durable = 0
    /\ cycle_count = 0
    /\ csrc = 0
    /\ in_pay = NoEntry
    /\ in_receive = NoEntry
    /\ in_entry = NoEntry
    /\ out_record = NoRecord
    /\ leagues = <<>>
    /\ returned = <<>>
    /\ league_faults = 0
    /\ IdleMore("transaction")

\* Lines 440-443: conn = engine.connect(); trans = conn.begin(); yield conn
TxEnter ==
    /\ txn.at = "idle"
    /\ Len(txlog) < MaxTxns
    /\ \E connectOk \in BOOLEAN, beginOk \in BOOLEAN :
          /\ ~connectOk => beginOk        \* begin is not reached then
          /\ IF ~connectOk
             THEN /\ txlog' = Append(txlog, Ended("connect", HandleError(FALSE, FALSE, "connect"),
                                                  FALSE, 0))
                  /\ UNCHANGED txn
             ELSE IF ~beginOk
             THEN /\ txlog' = Append(txlog, Ended("begin", HandleError(TRUE, FALSE, "begin"),
                                                  FALSE, 0))
                  /\ UNCHANGED txn
             ELSE /\ txn' = [at |-> "body", writes |-> 0]
                  /\ UNCHANGED txlog
    /\ UNCHANGED <<durable, raceVars, startup, loop, collectorVars, reconcilerVars, leagueVars, clientVars,
                   backfillVars, prev_url, wrapped>>

\* A statement of the body, executed on the yielded connection.
TxWrite ==
    /\ txn.at = "body"
    /\ txn.writes < MaxWrites
    /\ txn' = [txn EXCEPT !.writes = @ + 1]
    /\ UNCHANGED <<txlog, durable, raceVars, startup, loop, collectorVars, reconcilerVars, leagueVars,
                   clientVars, backfillVars, prev_url, wrapped>>

\* The body raises (the error is thrown in at the yield), or it completes and
\* trans.commit() is called, lines 443-445.
TxLeave ==
    /\ txn.at = "body"
    /\ \E bodyOk \in BOOLEAN, commitOk \in BOOLEAN :
          /\ ~bodyOk => commitOk          \* commit is not reached then
          /\ IF ~bodyOk
             THEN /\ txlog' = Append(txlog, Ended("body", HandleError(TRUE, TRUE, "body"),
                                                  FALSE, txn.writes))
                  /\ UNCHANGED durable
             ELSE IF ~commitOk
             THEN /\ txlog' = Append(txlog, Ended("commit", HandleError(TRUE, TRUE, "commit"),
                                                  FALSE, txn.writes))
                  /\ UNCHANGED durable
             ELSE /\ txlog' = Append(txlog, Ended("none", NotHandled, TRUE, txn.writes))
                  /\ durable' = durable + txn.writes
    /\ txn' = NoTxn
    /\ UNCHANGED <<raceVars, startup, loop, collectorVars, reconcilerVars, leagueVars, clientVars,
                   backfillVars, prev_url, wrapped>>

InitTransactionRun == InitIdleClient /\ InitNoBackfill /\ InitTransaction

NextTransaction == TxEnter \/ TxWrite \/ TxLeave

SpecTransaction == InitTransactionRun /\ [][NextTransaction]_vars

(***************************************************************************)
(* The start of the two entry points: backfill_historical.main and         *)
(* collector.main, from the configuration they are started with up to the  *)
(* first upstream request or the exit.                                     *)
(***************************************************************************)
Exit(st, status) == [st EXCEPT !.at = "exited", !.exit_status = status]

InitStartup ==
    /\ \E entry \in {"backfill", "collector"}, credentials \in BOOLEAN, league \in BOOLEAN,
          days \in (0 - 1)..1, list_leagues \in BOOLEAN, store_up \in BOOLEAN :
          /\ entry = "collector" => ~list_leagues      \* the collector takes no arguments
          /\ startup = [NotStarted EXCEPT !.entry = entry, !.credentials = credentials,
                                          !.league = league, !.days = days,
                                          !.list_leagues = list_leagues,
                                          !.store_up = store_up, !.at = "database"]
    /\ txn = NoTxn
    /\ txlog = <<>>
    /\ durable = 0
    /\ cycle_count = 0
    /\ csrc = 0
    /\ in_pay = NoEntry
    /\ in_receive = NoEntry
    /\ in_entry = NoEntry
    /\ out_record = NoRecord
    /\ leagues = <<>>
    /\ returned = <<>>
    /\ league_faults = 0
    /\ IdleMore("startup")

\* backfill_historical.initialize_database and lines 146-149 of its main: the
\* credentials are checked before create_engine; None makes main exit with 1.
BackfillInitializeDatabase ==
    /\ startup.entry = "backfill"
    /\ startup.at = "database"
    /\ startup' =
          IF ~startup.credentials
          THEN Exit(startup, 1)
          ELSE IF ~startup.store_up
          THEN Exit([startup EXCEPT !.connections = @ + 1], 1)
          ELSE [startup EXCEPT !.connections = @ + 1, !.at = "arguments"]
    /\ UNCHANGED <<raceVars, txVars, loop, collectorVars, reconcilerVars, leagueVars,
                   clientVars, backfillVars, prev_url, wrapped>>

\* backfill_historical.main, lines 151-174: --list-leagues, --league, then --days.
BackfillCheckArguments ==
    /\ startup.entry = "backfill"
    /\ startup.at = "arguments"
    /\ startup' =
          IF startup.list_leagues
          THEN Exit(startup, 0)
          ELSE IF ~startup.league
          THEN Exit(startup, 1)
          ELSE IF startup.days <= 0
          THEN Exit(startup, 1)
          ELSE [startup EXCEPT !.at = "working"]
    /\ UNCHANGED <<raceVars, txVars, loop, collectorVars, reconcilerVars, leagueVars,
                   clientVars, backfillVars, prev_url, wrapped>>

\* collector.initialize_database and lines 338-340 of its main: the URL is built
\* from whatever the environment holds and a connection is attempted; on failure
\* main returns, and the interpreter exits with status 0.
CollectorInitializeDatabase ==
    /\ startup.entry = "collector"
    /\ startup.at = "database"
    /\ startup' =
          IF startup.credentials /\ startup.store_up
          THEN [startup EXCEPT !.connections = @ + 1, !.at = "working"]
          ELSE Exit([startup EXCEPT !.connections = @ + 1], 0)
    /\ UNCHANGED <<raceVars, txVars, loop, collectorVars, reconcilerVars, leagueVars,
                   clientVars, backfillVars, prev_url, wrapped>>

\* The first upstream request of the work that follows.
FirstUpstreamRequest ==
    /\ startup.at = "working"
    /\ startup.upstream_requests = 0
    /\ startup' = [startup EXCEPT !.upstream_requests = 1]
    /\ UNCHANGED <<raceVars, txVars, loop, collectorVars, reconcilerVars, leagueVars,
                   clientVars, backfillVars, prev_url, wrapped>>

InitStartupRun == InitIdleClient /\ InitNoBackfill /\ InitStartup

NextStartup ==
    \/ BackfillInitializeDatabase
    \/ BackfillCheckArguments
    \/ CollectorInitializeDatabase
    \/ FirstUpstreamRequest

SpecStartup == InitStartupRun /\ [][NextStartup]_vars

(***************************************************************************)
(* Claims about the HTTP client, checked under Spec.                       *)
(***************************************************************************)
WatchedCount == DictGet(failure_counts, watched, 0)

WatchedOpenEntry == watched \in DOMAIN circuit_open_until

CallKey == GetCircuitKey(call.url)

\* C1: with the circuit breaker enabled, once the gets for a key have ended in
\* circuit_breaker_threshold consecutive terminal failures (at time tripAt), the
\* key is open until tripAt + circuit_breaker_timeout, and every get to that key
\* begun before that time returns failure without a network request.
C1_OpenShortCircuits ==
    enable_circuit_breaker =>
        /\ (tripAt # NoTime /\ now < tripAt + circuit_breaker_timeout) =>
              /\ WatchedOpenEntry
              /\ circuit_open_until[watched] = tripAt + circuit_breaker_timeout
        /\ call.inCooldown =>
              /\ pc = "idle"
              /\ call.shortCircuited
              /\ call.result = "none"
              /\ call.requests = 0

C1_Witness ==
    /\ enable_circuit_breaker
    /\ call.inCooldown
    /\ call.shortCircuited
    /\ circuit_breaker_threshold > 1

\* C2: a get that begins when the open_until of its key has passed is not
\* short-circuited: it resets the key's failure counter to zero and removes the
\* open entry before its first request, makes at least one network request, and
\* leaves the counter at 0 after a success and at 1 after a failure, whatever the
\* counter was before (no half-open state: a failed probe counts as a first failure).
C2_ExpiredCircuitCloses ==
    call.expiredAtBegin =>
        /\ ~call.shortCircuited
        /\ pc # "idle" =>
              /\ DictGet(failure_counts, CallKey, 0) = 0
              /\ CallKey \notin DOMAIN circuit_open_until
        /\ pc = "idle" =>
              /\ call.requests >= 1
              /\ DictGet(failure_counts, CallKey, 0) = (IF call.result = "response" THEN 0 ELSE 1)
              /\ (call.result = "none" /\ circuit_breaker_threshold > 1) =>
                    CallKey \notin DOMAIN circuit_open_until

C2_Witness ==
    /\ call.expiredAtBegin
    /\ pc = "idle"
    /\ call.result = "none"
    /\ call.requests >= 1
    /\ circuit_breaker_threshold > 1

\* C3 as stated: the counter of a closed key counts its consecutive terminal
\* failures (one per failed get, zero after a success), and after threshold-1
\* failures, a success and one more failure the circuit is closed.
C3_AsStated ==
    enable_circuit_breaker =>
        /\ ~WatchedOpenEntry => WatchedCount = streak
        /\ pattern = 2 => ~WatchedOpenEntry

\* C3, amended: the counter of a closed key counts its consecutive terminal
\* failures, and for a threshold of at least 2, threshold-1 failures followed by
\* a success and one more failure leave the circuit closed (with a threshold of
\* 1 that one failure opens it, as every failure does).
C3_ConsecutiveFailuresCount ==
    enable_circuit_breaker =>
        /\ ~WatchedOpenEntry => WatchedCount = streak
        /\ WatchedOpenEntry => WatchedCount = circuit_breaker_threshold
        /\ (pattern = 2 /\ circuit_breaker_threshold >= 2) =>
              /\ ~WatchedOpenEntry
              /\ WatchedCount = 1

C3_Witness ==
    /\ enable_circuit_breaker
    /\ circuit_breaker_threshold >= 2
    /\ pattern = 2
    /\ WatchedCount = 1

\* C4: the step in which an attempt of get receives a 4xx other than 429 ends the
\* call with failure, with no further attempt and no backoff sleep, and (the
\* breaker being enabled) increments the failure counter of the endpoint by one.
C4_ClientErrorIsTerminal ==
    [][ (/\ pc = "request"
         /\ call'.requests = call.requests + 1
         /\ call'.lastOutcome = "client_error")
        => (/\ pc' = "idle"
            /\ call'.result = "none"
            /\ call'.attempt = call.attempt
            /\ call'.sleeps = call.sleeps
            /\ enable_circuit_breaker =>
                  DictGet(failure_counts', CallKey, 0) = DictGet(failure_counts, CallKey, 0) + 1)
      ]_vars

C4_Witness ==
    /\ pc = "idle"
    /\ call.lastOutcome = "client_error"
    /\ call.result = "none"
    /\ enable_circuit_breaker
    /\ call.requests = 1

\* C5: one get sends at most max_retries + 1 requests to the endpoint, counting
\* the requests of every layer of the client.
C5_AtMostMaxRetriesPlusOneRequests == call.requests <= max_retries + 1

\* The outcomes of an attempt that get catches and retries.
Transient == {"retry_status", "other_5xx", "timeout", "conn_error"}

\* C24: a get whose every attempt fails with a transient error returns None (it
\* does not raise), and the breaker, when enabled, records exactly one failure for
\* the call: the step that ends the call increments the key's counter by one and
\* no earlier step of the call changes it.
C24_ExhaustedRetriesRecordOnce ==
    [][ pc # "idle" =>
          /\ pc' # "idle" => failure_counts' = failure_counts
          /\ (pc' = "idle" /\ call'.lastOutcome \in Transient) =>
                /\ call'.result = "none"
                /\ call'.attempt = max_retries
                /\ enable_circuit_breaker =>
                      DictGet(failure_counts', CallKey, 0)
                          = DictGet(failure_counts, CallKey, 0) + 1
      ]_vars

C24_Witness ==
    /\ pc = "idle"
    /\ enable_circuit_breaker
    /\ max_retries >= 1
    /\ call.attempt = max_retries
    /\ call.lastOutcome \in Transient
    /\ call.result = "none"
    /\ DictGet(failure_counts, CallKey, 0) = 1

NewRows(cat) ==
    {r \in BagToSet(store'[cat]) : CopiesIn(r, store'[cat]) > CopiesIn(r, store[cat])}

\* How many rows a step appends to the table of a category.
NewRowCount(cat) == BagCardinality(store'[cat]) - BagCardinality(store[cat])

(***************************************************************************)
(* C6: every upstream request of a backfill run (the catalog fetch and     *)
(* each history fetch) goes through the HTTP client, so a request that has *)
(* failed for good has incremented the failure counter of its endpoint     *)
(* (with a threshold of 1: has opened its circuit).                        *)
(***************************************************************************)
C6_BackfillFetchesUseClient ==
    ~lastFetch.ok =>
        \/ DictGet(failure_counts, GetCircuitKey(lastFetch.url), 0) >= 1
        \/ GetCircuitKey(lastFetch.url) \in DOMAIN circuit_open_until

(***************************************************************************)
(* C7: no step of a backfill appends a row for a calendar date that the    *)
(* store already holds for that league and entity, also when the query of  *)
(* the stored dates fails.                                                 *)
(***************************************************************************)
C7_NoRowForStoredDate ==
    [][ \A cat \in CategorySet : \A r \in NewRows(cat) :
            DateOf(r.timestamp) \notin StoredDates(cat, NameOf(cat, r)) ]_vars

(***************************************************************************)
(* C8: every row a backfill appends has a calendar date in                 *)
(* [today - max_days_back, today], whatever daysAgo the entry carries.     *)
(***************************************************************************)
C8_RowsInsideWindow ==
    [][ \A cat \in CategorySet : \A r \in NewRows(cat) :
            /\ today - max_days_back <= DateOf(r.timestamp)
            /\ DateOf(r.timestamp) <= today ]_vars

(***************************************************************************)
(* C9: a second backfill run, after a first run in which no request and no *)
(* query failed, with the same upstream data and no other writer, appends  *)
(* no row in any category.                                                 *)
(***************************************************************************)
C9_SecondRunAppendsNothing ==
    (run = 2 /\ cleanFirstRun) => \A cat \in CategorySet : appended[cat] = 0

\* The history of an entity has an entry that yields a record for each day of the window.
UsableForEveryDay(cat, api_id) ==
    \A d \in 0..max_days_back :
        IF cat = "currency"
        THEN ProcessCurrencyEntryBoth(
                ByDay(history[cat][api_id].payCurrencyGraphData, d),
                ByDay(history[cat][api_id].receiveCurrencyGraphData, d), "A", today - d).t
             = "record"
        ELSE \E i \in DOMAIN history[cat][api_id] : history[cat][api_id][i].daysAgo = Whole(d)

(***************************************************************************)
(* C10: for a matched entity whose history has a usable entry for each day *)
(* of the window, the entity's step (its history fetch and its insert not  *)
(* failing) appends exactly one row per day of the window that has no      *)
(* stored row and no other row, each with the league id and the entity's   *)
(* stored name.                                                            *)
(***************************************************************************)
C10_OneRowPerMissingDay ==
    [][ ( /\ bpc = "entities"
          /\ name_to_id_map # <<>>
          /\ name_to_id_map' = Tail(name_to_id_map)
          /\ ~lastEntity'.skipped
          /\ lastEntity'.fetchOk
          /\ ~lastEntity'.raised
          /\ UsableForEveryDay(Categories[ci], Head(name_to_id_map)[2]) )
        =>
        LET cat == Categories[ci]
            name == Head(name_to_id_map)[1]
            missing == {today - d : d \in 0..max_days_back} \ StoredDates(cat, name)
        IN  /\ NewRowCount(cat) = Cardinality(missing)
            /\ \A r \in NewRows(cat) :
                  /\ DateOf(r.timestamp) \in missing
                  /\ r.league_id = league_id
                  /\ NameOf(cat, r) = name
                  /\ CopiesIn(r, store'[cat]) = CopiesIn(r, store[cat]) + 1 ]_vars

\* A step of the loop over name_to_id_map.items(): one entity is taken off the map.
EntityStep ==
    /\ bpc = "entities"
    /\ name_to_id_map # <<>>
    /\ name_to_id_map' = Tail(name_to_id_map)

\* The catalog of a category lists the name with an id.
InCatalogWithId(cat, name) ==
    \E i \in DOMAIN catalog[cat] :
        /\ IsObject(catalog[cat][i])
        /\ catalog[cat][i].name = name
        /\ Truthy(JsonGet(catalog[cat][i].id, Null))

(***************************************************************************)
(* C12: a backfill appends rows only for names that already have a stored  *)
(* row in the league and category and that the upstream catalog lists,     *)
(* by exact match, with an id.                                             *)
(***************************************************************************)
C12_OnlyMatchedNames ==
    [][ \A cat \in CategorySet : \A r \in NewRows(cat) :
            /\ NameOf(cat, r) \in GetExistingNames(cat, TRUE)
            /\ InCatalogWithId(cat, NameOf(cat, r)) ]_vars

\* Rows were appended in a category whose catalog lists, with an id, a name that
\* the store does not hold, and whose store holds a name the catalog does not list.
C12_Witness ==
    \E cat \in CategorySet :
        /\ appended[cat] > 0
        /\ \E n \in EntityNames : InCatalogWithId(cat, n) /\ n \notin GetExistingNames(cat, TRUE)

(***************************************************************************)
(* C13: the currency with upstream id 1 is skipped: its step makes no      *)
(* history request, appends no row and counts nothing.                     *)
(***************************************************************************)
C13_BaseCurrencySkipped ==
    [][ ( /\ EntityStep
          /\ Categories[ci] = "currency"
          /\ Head(name_to_id_map)[2] = 1 )
        =>
        /\ store' = store
        /\ lastFetch' = lastFetch
        /\ faults' = faults
        /\ total_records' = total_records
        /\ items_processed' = items_processed ]_vars

\* The base currency, whose name has stored rows, has been skipped.
C13_Witness ==
    /\ lastEntity.skipped
    /\ lastEntity.cat = "currency"
    /\ lastEntity.name \in GetExistingNames("currency", TRUE)
    /\ lastFetch.url = CatalogUrl("currency")

\* The words of the claim: a side is usable when its value is a positive number
\* (and, for the receive side, its count is positive).
DayUsable(api_id, d) ==
    LET pay == ByDay(history["currency"][api_id].payCurrencyGraphData, d)
        receive == ByDay(history["currency"][api_id].receiveCurrencyGraphData, d)
    IN  \/ pay # NoEntry /\ IsPositive(pay.value)
        \/ receive # NoEntry /\ IsPositive(receive.value) /\ IsPositive(receive.count)

(***************************************************************************)
(* C15: in a currency's step whose fetch, queries and insert do not fail,  *)
(* a day of the window with no stored row gets a row exactly when one side *)
(* of that day is usable: a day with no usable value (null, absent, not    *)
(* positive, or receive count 0) is left out alone, the other days are     *)
(* written.                                                                *)
(***************************************************************************)
C15_UnusableDaySkippedAlone ==
    [][ ( /\ EntityStep
          /\ Categories[ci] = "currency"
          /\ ~lastEntity'.skipped
          /\ lastEntity'.fetchOk /\ lastEntity'.readOk /\ lastEntity'.insertOk )
        =>
        LET name == Head(name_to_id_map)[1]
            api_id == Head(name_to_id_map)[2]
        IN  \A d \in 0..max_days_back :
                (today - d) \notin StoredDates("currency", name) =>
                    ( DayUsable(api_id, d)
                      <=> \E r \in NewRows("currency") :
                             r.currency_name = name /\ DateOf(r.timestamp) = today - d ) ]_vars

(***************************************************************************)
(* C17: the failure of one category (catalog fetch failure, malformed      *)
(* catalog, store read failure) never aborts backfill_all: the beginning   *)
(* of a category leads to its entities, to the next category or to the end *)
(* of the run with a result for the three categories.                      *)
(***************************************************************************)
C17_CategoryFailureIsolated ==
    [][ bpc = "category" => bpc' \in {"category", "entities", "done"} ]_vars

(***************************************************************************)
(* C18: a backfill run aborts only when the league id cannot be resolved   *)
(* at its start, and then it makes no upstream request and appends no row; *)
(* every other run completes.                                              *)
(***************************************************************************)
C18_AbortOnlyWithoutLeague ==
    /\ bpc # "aborted"
    /\ bpc = "unresolved" =>
          /\ lastFetch = NoFetch
          /\ \A cat \in CategorySet : appended[cat] = 0

(***************************************************************************)
(* C19: when the insert of an entity's records fails, nothing of that      *)
(* entity is stored or counted, and the loop goes on with the next entity. *)
(***************************************************************************)
C19_InsertFailureIsolated ==
    [][ (EntityStep /\ ~lastEntity'.insertOk)
        =>
        /\ store' = store
        /\ total_records' = total_records
        /\ items_processed' = items_processed
        /\ results' = results
        /\ bpc' = "entities" ]_vars

\* A run has completed although the insert of its last entity failed, and it wrote
\* the rows of another category.
C19_Witness ==
    /\ bpc = "done"
    /\ ~lastEntity.insertOk
    /\ results[lastEntity.cat] = <<0, 0>>
    /\ \E cat \in CategorySet : results[cat][2] > 0

(***************************************************************************)
(* C30: within one backfill run nothing is requested twice: the catalog of *)
(* a category is fetched at most once and the history of a matched entity  *)
(* is requested at most once, whether or not the fetch, the reconciliation *)
(* or the write for it fails.                                              *)
(***************************************************************************)
C30_NoRetryAboveTheCall ==
    \A key \in BagToSet(requested) : CopiesIn(key, requested) = 1

\* A finished run whose last entity was requested once although its fetch failed.
C30_Witness ==
    /\ bpc = "done"
    /\ ~lastEntity.skipped
    /\ ~lastEntity.fetchOk
    /\ CopiesIn(<<lastEntity.cat, lastEntity.name>>, requested) = 1
    /\ \A cat \in CategorySet : CopiesIn(<<cat, "">>, requested) = 1

(***************************************************************************)
(* Claims about the value reconciler, checked under SpecReconcile.         *)
(***************************************************************************)
\* The input fields as the reconciler reads them (a missing entry or key reads 0).
InValue(entry_in) == IF entry_in = NoEntry THEN Whole(0) ELSE JsonGet(entry_in.value, Whole(0))

InCount(entry_in) == IF entry_in = NoEntry THEN Whole(0) ELSE JsonGet(entry_in.count, Whole(0))

PayApplies == IsPositive(InValue(in_pay))

ReceiveApplies == IsPositive(InValue(in_receive)) /\ IsPositive(InCount(in_receive))

\* The unweighted mean of the rates that apply, as the fraction <<numerator, denominator>>.
MeanOfRates ==
    LET p == InValue(in_pay)
        r == InValue(in_receive)
    IN  IF PayApplies /\ ReceiveApplies
        THEN <<p.d * r.d + r.n * p.n, 2 * p.n * r.d>>
        ELSE IF PayApplies
        THEN <<p.d, p.n>>
        ELSE <<r.n, r.d>>

\* A fraction in lowest terms.
Reduced(n, d) == <<n \div Gcd(n, d), d \div Gcd(n, d)>>

CurrencyRecorded == in_entry = NoEntry /\ out_record.t = "record"

(***************************************************************************)
(* C14 as stated: the chaos_equivalent of a currency day equals the        *)
(* unweighted arithmetic mean of the rates that apply.                     *)
(***************************************************************************)
C14_AsStated ==
    CurrencyRecorded =>
        Reduced(out_record.row.chaos_equivalent.n, out_record.row.chaos_equivalent.d)
            = Reduced(MeanOfRates[1], MeanOfRates[2])

(***************************************************************************)
(* C14: the chaos_equivalent of a currency day equals the unweighted       *)
(* arithmetic mean of the rates that apply (1/pay_value when pay_value >   *)
(* 0, receive_value when receive_value > 0 and receive_count > 0), rounded *)
(* to 6 decimal places; pay 100 with receive 0.008 (count 5) gives 0.009   *)
(* and pay 50 alone gives 0.02.                                            *)
(***************************************************************************)
C14_MeanOfRatesRounded ==
    /\ CurrencyRecorded =>
          /\ PayApplies \/ ReceiveApplies
          /\ out_record.row.chaos_equivalent = Round6(MeanOfRates[1], MeanOfRates[2])
    /\ ( /\ CurrencyRecorded
         /\ InValue(in_pay) = Whole(100)
         /\ InValue(in_receive) = Num(8, 1000) /\ InCount(in_receive) = Whole(5) )
       => out_record.row.chaos_equivalent = Num(9000, Micro)
    /\ (CurrencyRecorded /\ InValue(in_pay) = Whole(50) /\ ~ReceiveApplies)
       => out_record.row.chaos_equivalent = Num(20000, Micro)

\* Both rates apply, with different counts, and the mean is not a multiple of 1/Micro.
C14_Witness ==
    /\ CurrencyRecorded
    /\ PayApplies /\ ReceiveApplies
    /\ InValue(in_pay) = Whole(3)
    /\ InCount(in_pay) = Whole(0)
    /\ InValue(in_receive) = Num(8, 1000)

(***************************************************************************)
(* C16: the reconciler yields nothing or a fully formed record: a record   *)
(* of a currency, a card or an item has a league id, a name, a timestamp   *)
(* and a canonical value that are not null, whatever the entry's shape.    *)
(***************************************************************************)
C16_NothingOrFullRecord ==
    /\ out_record.t \in {"pending", "none", "record"}
    /\ out_record.t = "record" =>
          /\ out_record.row.league_id = league_id
          /\ out_record.row.timestamp = Midnight(today)
          /\ \/ "currency_name" \in DOMAIN out_record.row /\ out_record.row.currency_name = "A"
             \/ "card_name" \in DOMAIN out_record.row /\ out_record.row.card_name = "A"
             \/ "item_name" \in DOMAIN out_record.row /\ out_record.row.item_name = "A"
          /\ IF "chaos_equivalent" \in DOMAIN out_record.row
             THEN out_record.row.chaos_equivalent.t = "num"
             ELSE out_record.row.chaos_value.t = "num"

(***************************************************************************)
(* Claims about the league registry, checked under SpecLeague.             *)
(***************************************************************************)
(***************************************************************************)
(* C20: sequential calls of get_or_create_league with one name return the  *)
(* same id each time (a call whose queries do not fail returns the id of   *)
(* the row, no call returns another id) and leave exactly one row with     *)
(* that name: a row is inserted only when no row has that name.            *)
(***************************************************************************)
C20_GetOrCreateIdempotent ==
    /\ \A n \in LeagueNames : Cardinality(RowsNamed(leagues, n)) <= 1
    /\ \A i \in DOMAIN returned :
          /\ returned[i].ok =>
                /\ returned[i].id # NoId
                /\ Cardinality(RowsNamed(leagues, returned[i].league_name)) = 1
          /\ returned[i].id # NoId =>
                \E k \in RowsNamed(leagues, returned[i].league_name) :
                    leagues[k].id = returned[i].id

\* Two calls with a name that had no row, and a call with another name in between:
\* the first inserted the row, the later one found it.
C20_Witness ==
    /\ Len(returned) >= 3
    /\ returned[1].league_name = "Settlers"
    /\ returned[2].league_name = "Keepers"
    /\ returned[3].league_name = "Settlers"
    /\ returned[1].id # NoId
    /\ returned[3].id = returned[1].id
    /\ returned[2].id # returned[1].id /\ returned[2].id # NoId

(***************************************************************************)
(* Claims about the collector process, checked under SpecCollector.        *)
(***************************************************************************)
\* The rows of a table (copies counted) of one league, entity and calendar date.
Observations(cat, lid, name, date) ==
    LET same == {r \in BagToSet(store[cat]) :
                    r.league_id = lid /\ NameOf(cat, r) = name /\ DateOf(r.timestamp) = date}
    IN  BagCardinality([r \in same |-> CopiesIn(r, store[cat])])

(***************************************************************************)
(* C11: after any sequence of live collection cycles and backfill runs of  *)
(* one process, every table holds at most one observation per league,      *)
(* entity name and calendar date.                                          *)
(***************************************************************************)
C11_OneObservationPerDay ==
    \A cat \in CategorySet : \A r \in BagToSet(store[cat]) :
        Observations(cat, r.league_id, NameOf(cat, r), DateOf(r.timestamp)) <= 1

(***************************************************************************)
(* Claims about the backoff of get, checked under SpecBackoff.             *)
(***************************************************************************)
\* backoff_factor * 2^(n-1), n >= 1
BackoffFloor(n) == backoff_factor * Pow2(n - 1)

(***************************************************************************)
(* C25: the delay slept before attempt n of get (n the loop index of the   *)
(* attempt, the first attempt having index 0) is at least                  *)
(* backoff_factor * 2^(n-1) and less than backoff_factor * 2^(n-1) + 1     *)
(* second, and its deterministic component does not decrease with n.       *)
(***************************************************************************)
C25_BackoffWithinBounds ==
    /\ \A i \in DOMAIN slept :
          LET n == slept[i].attempt + 1
          IN  /\ n = i
              /\ BackoffFloor(n) <= slept[i].sleep_time
              /\ slept[i].sleep_time < BackoffFloor(n) + JitterSteps
    /\ \A i \in DOMAIN slept : \A j \in DOMAIN slept :
          i <= j => slept[i].deterministic <= slept[j].deterministic

C25_Witness ==
    /\ Len(slept) = 3
    /\ backoff_factor = 1
    /\ slept[1].sleep_time = 1
    /\ slept[2].sleep_time > 2
    /\ slept[3].sleep_time = 4 + (JitterSteps - 1)

(***************************************************************************)
(* Claims about concurrent get_or_create_league calls, checked under       *)
(* SpecLeagueRace.                                                         *)
(***************************************************************************)
\* Both calls are over, were for one name, and both lookups found no row.
BothPassedLookup ==
    /\ \A p \in Procs : racer[p].at = "done" /\ racer[p].looked = NoId
    /\ racer[1].league_name = racer[2].league_name

(***************************************************************************)
(* C21: two concurrent get_or_create_league calls for one name that is     *)
(* absent can both pass the lookup, and then both insert: without a        *)
(* uniqueness constraint two rows with that name are left and the calls    *)
(* return two different ids; with the constraint at most one row has the   *)
(* name and the call that lost returns failure.                            *)
(***************************************************************************)
C21_ConcurrentCreateRaces ==
    /\ name_unique => \A n \in LeagueNames : Cardinality(RowsNamed(leagues, n)) <= 1
    /\ BothPassedLookup =>
          IF name_unique
          THEN /\ Cardinality(RowsNamed(leagues, racer[1].league_name)) = 1
               /\ \E p \in Procs : /\ racer[p].id = NoId
                                   /\ racer[3 - p].id # NoId
          ELSE /\ Cardinality(RowsNamed(leagues, racer[1].league_name)) = 2
               /\ racer[1].id # NoId
               /\ racer[2].id # NoId
               /\ racer[1].id # racer[2].id

C21_Witness ==
    /\ ~name_unique
    /\ BothPassedLookup
    /\ Cardinality(RowsNamed(leagues, racer[1].league_name)) = 2

(***************************************************************************)
(* Claims about concurrent backfills, checked under SpecBackfillRace.      *)
(***************************************************************************)
\* The dates of the history, inside the horizon, that `existing_dates` lacks.
DatesToInsert(existing_dates) ==
    {today - d : d \in {x \in GraphDays(history["divination_cards"][2]) : WithinHorizon(x)}}
        \ existing_dates

(***************************************************************************)
(* C22: two backfill processes running at once for one league and entity   *)
(* can both see a calendar day as missing, and then both insert a record   *)
(* for it: no lock and no deduplication in the store prevents the two      *)
(* observations for one (league_id, entity_name, date).                    *)
(***************************************************************************)
C22_ConcurrentBackfillsDuplicate ==
    (\A p \in Procs : backfiller[p].at = "done") =>
        \A date \in DatesToInsert(backfiller[1].existing_dates)
                        \cap DatesToInsert(backfiller[2].existing_dates) :
            Observations("divination_cards", league_id, RacedCard, date) >= 2

\* Both processes are done, and a day that no row covered when they began has two.
C22_Witness ==
    /\ \A p \in Procs : backfiller[p].at = "done"
    /\ \E date \in DatesToInsert(backfiller[1].existing_dates)
                       \cap DatesToInsert(backfiller[2].existing_dates) :
          Observations("divination_cards", league_id, RacedCard, date) = 2

(***************************************************************************)
(* Claims about managed_transaction, checked under SpecTransaction.        *)
(***************************************************************************)
(***************************************************************************)
(* C23: managed_transaction commits exactly when its body completes        *)
(* without error (and the commit itself succeeds); on an error raised in   *)
(* the transaction, a failure to begin or to commit it included, the same  *)
(* error reaches the caller, after a rollback of what was begun; and no    *)
(* block both commits and rolls back.                                      *)
(***************************************************************************)
C23_CommitOrRollbackAndReraise ==
    \A i \in DOMAIN txlog :
        /\ ~(txlog[i].committed /\ txlog[i].rolled_back)
        /\ txlog[i].committed <=> txlog[i].error = "none"
        /\ txlog[i].error # "none" => txlog[i].propagated = txlog[i].error
        /\ txlog[i].error \in {"body", "commit"} => txlog[i].rolled_back

(***************************************************************************)
(* Claims about the start of the entry points, checked under SpecStartup.  *)
(***************************************************************************)
\* The configuration the entry point was started with is in error.
ConfigurationError ==
    \/ ~startup.credentials
    \/ /\ startup.entry = "backfill"
       /\ ~startup.list_leagues
       /\ ~startup.league \/ startup.days <= 0

(***************************************************************************)
(* C27: a configuration error (missing store credentials, missing          *)
(* --league, non-positive --days) makes the process exit with a non-zero   *)
(* status before any upstream request, for the backfill entry point and    *)
(* for the collector entry point.                                          *)
(***************************************************************************)
C27_ConfigErrorExitsNonZero ==
    ConfigurationError =>
        /\ startup.upstream_requests = 0
        /\ startup.at \in {"database", "arguments", "exited"}
        /\ startup.at = "exited" => startup.exit_status # 0

(***************************************************************************)
(* Claims about the loop of collector.main, checked under SpecCollector.   *)
(***************************************************************************)
(***************************************************************************)
(* C28: collection cycles never overlap and nothing but an interrupt ends  *)
(* the loop: the sources of a cycle run only inside it, a cycle starts     *)
(* only when the previous one is over and the sleep after it has elapsed   *)
(* (as many sleeps completed as cycles begun), and an error raised inside  *)
(* a cycle leads to the sleep and the next cycle.                          *)
(***************************************************************************)
C28_CyclesInSequenceForever ==
    /\ csrc # 0 => loop.at = "cycle"
    /\ loop.at \in {"cycle", "sleeping"} => loop.naps = cycle_count - 1
    /\ loop.at = "head" => loop.naps = cycle_count
    /\ loop.at \in {"stopped", "killed"} => loop.interrupted

\* The second cycle runs although the first ended in an error.
C28_Witness ==
    /\ loop.caught
    /\ ~loop.interrupted
    /\ cycle_count = 2
    /\ loop.at = "cycle"
    /\ loop.naps = 1

(***************************************************************************)
(* C29: an interrupt that reaches the collector at any point of a cycle or *)
(* of the sleep between cycles makes it leave the loop through the         *)
(* shutdown path, which disposes the connection pool of the store.         *)
(***************************************************************************)
C29_InterruptDisposesPool ==
    loop.interrupted => (loop.at = "stopped" /\ loop.disposed)

\* The backfill the collector ran left something undone: the run or a category
\* was given up, or the last entity's fetch or insert failed.
BackfillFailed ==
    /\ loop.backfilled
    /\ \/ bpc \in {"aborted", "unresolved"}
       \/ bpc = "done" /\ (~lastFetch.ok \/ ~lastEntity.fetchOk \/ lastEntity.raised)

(***************************************************************************)
(* C31: what a backfill failed to fill is attempted again by a backfill in *)
(* the next collection cycle of the running collector: once a cycle that   *)
(* followed a failed backfill is over, a further backfill run has begun.   *)
(***************************************************************************)
C31_FailedBackfillRetriedNextCycle ==
    (BackfillFailed /\ loop.at = "sleeping" /\ ~loop.caught) => run >= 2

(***************************************************************************)
(* Claims about the rows of the leagues table, checked under SpecLeague.   *)
(***************************************************************************)
\* The call get_or_create_league has just returned from.
LastCall == returned'[Len(returned')]

(***************************************************************************)
(* C32: a league row is immutable but for its status: no step removes a    *)
(* row or changes the id, the name or the start_date of one, and           *)
(* get_or_create_league called with the name of an existing row leaves the *)
(* table as it is and, its lookup succeeding, returns the id of that row,  *)
(* whatever status and start_date it was given.                            *)
(***************************************************************************)
C32_LeagueRowImmutable ==
    [][/\ Len(leagues') >= Len(leagues)
       /\ \A i \in DOMAIN leagues :
             /\ leagues'[i].id = leagues[i].id
             /\ leagues'[i].league_name = leagues[i].league_name
             /\ leagues'[i].start_date = leagues[i].start_date
       /\ (Len(returned') > Len(returned) /\ RowsNamed(leagues, LastCall.league_name) # {}) =>
             /\ leagues' = leagues
             /\ LastCall.ok =>
                   \E k \in RowsNamed(leagues, LastCall.league_name) : LastCall.id = leagues[k].id
      ]_vars

\* A call for the existing league with another status and no start_date returned
\* its id; the row has the start_date and the status it had (after two updates).
C32_Witness ==
    /\ Len(leagues) = 1
    /\ leagues[1] = [id |-> 1, league_name |-> "Keepers", status |-> "Expired",
                     start_date |-> 0 - 5]
    /\ \E i \in DOMAIN returned :
          /\ returned[i] = [league_name |-> "Keepers", id |-> 1, ok |-> TRUE,
                            status |-> "Active", start_date |-> NoId]

(***************************************************************************)
(* Claims about malformed upstream payloads, checked under SpecMalformed.  *)
(***************************************************************************)
\* The category whose catalog lists A.
ListsA(cat) == Len(catalog[cat]) = 2

\* A's catalog entry has no id or no name.
EntryIncomplete(cat) ==
    ListsA(cat) /\ (catalog[cat][1].id = Absent \/ catalog[cat][1].name = NoName)

\* A's history is not of the shape its category expects.
WrongShape(cat) ==
    /\ ListsA(cat)
    /\ IF cat = "currency" THEN ~IsDict(history[cat][2]) ELSE ~IsList(history[cat][2])

\* A's history holds an entry without daysAgo.
EntryWithoutDay(cat) ==
    /\ ListsA(cat)
    /\ ~WrongShape(cat)
    /\ LET entries == IF cat = "currency" THEN history[cat][2].payCurrencyGraphData
                      ELSE history[cat][2]
       IN  \E i \in DOMAIN entries : entries[i].daysAgo = Absent

\* The days for which A's history holds an entry that says its day.
DaysOfA(cat) ==
    IF WrongShape(cat) THEN {}
    ELSE IF cat = "currency" THEN GraphDays(history[cat][2].payCurrencyGraphData)
    ELSE GraphDays(history[cat][2])

\* The dates inside the window for which the table holds a row of the entity.
DatesWritten(cat, name) ==
    {d \in StoredDates(cat, name) : d >= today - max_days_back}

C38_CountsMatchAppendedRows ==
    [][/\ EntityStep =>
             /\ total_records' = total_records + NewRowCount(Categories[ci])
             /\ items_processed' =
                    items_processed + (IF NewRowCount(Categories[ci]) > 0 THEN 1 ELSE 0)
       /\ ~EntityStep => \A cat \in CategorySet : NewRowCount(cat) = 0
       /\ (bpc = "category" /\ bpc' = "entities") => (total_records' = 0 /\ items_processed' = 0)
       /\ (bpc = "entities" /\ bpc' # "entities") =>
             results'[Categories[ci]] = <<items_processed, total_records>>
       /\ bpc' = "done" =>
             \A cat \in CategorySet :
                 /\ results'[cat][2] = appended'[cat]
                 /\ results'[cat][1] <= results'[cat][2]
      ]_vars

\* A run is over in which a category returned one entity and two rows, its table
\* having received two rows, although a request or a query of the run failed.
C38_Witness ==
    /\ bpc = "done"
    /\ faults > 0
    /\ \E cat \in CategorySet : results[cat] = <<1, 2>> /\ appended[cat] = 2

(***************************************************************************)
(* with_retry(max_retries, backoff_factor): one invocation of the wrapper. *)
(* A call of the function returns, raises an exception that derives from   *)
(* Exception ("raise"), or raises one that does not, a KeyboardInterrupt   *)
(* say ("interrupt"), which "except Exception" lets through.               *)
(***************************************************************************)
CallEnds == {"return", "raise", "interrupt"}

\* A wrapper that sleeps after the last attempt too.
RetriesLeftInclusive(attempt, retries) == attempt <= retries

\* "if attempt < max_retries", line 411
RetriesLeft(attempt, retries) == attempt < retries

InitRetry ==
    /\ InitIdleClient
    /\ InitNoBackfill
    /\ InitRestBut("retry")
    /\ \E retries \in (0 - 1)..MaxSleeps : wrapped = [NotInvoked EXCEPT !.max_retries = retries]

\* wrapper(*args, **kwargs) is entered: range(max_retries + 1) is empty when
\* max_retries < 0, and "raise last_exception" then raises TypeError (of no call).
Invoke ==
    /\ wrapped.at = "idle"
    /\ wrapped' = [wrapped EXCEPT !.at = IF wrapped.max_retries + 1 > 0 THEN "calling"
                                         ELSE "raised"]
    /\ UNCHANGED <<collectorVars, reconcilerVars, leagueVars, raceVars, txVars, startup, loop,
                   prev_url, clientVars, backfillVars>>

\* One pass of the loop up to the sleep: func is called; its result is returned,
\* or its exception is kept in last_exception; after the last attempt the loop
\* ends and last_exception is raised.
CallFunc ==
    /\ wrapped.at = "calling"
    /\ \E end \in CallEnds :
          LET n == Len(wrapped.calls) + 1
              w == [wrapped EXCEPT !.calls = Append(@, end)]
          IN  wrapped' =
                 CASE end = "return" -> [w EXCEPT !.at = "returned", !.outcome = n]
                   [] end = "interrupt" -> [w EXCEPT !.at = "raised", !.outcome = n]
                   [] end = "raise" ->
                        IF RetriesLeft(wrapped.attempt, wrapped.max_retries)
                        THEN [w EXCEPT !.at = "sleeping", !.outcome = n]
                        ELSE IF wrapped.attempt + 1 <= wrapped.max_retries
                        THEN [w EXCEPT !.attempt = @ + 1, !.outcome = n]
                        ELSE [w EXCEPT !.at = "raised", !.outcome = n]
    /\ UNCHANGED <<collectorVars, reconcilerVars, leagueVars, raceVars, txVars, startup, loop,
                   prev_url, clientVars, backfillVars>>

\* time.sleep(backoff_factor * 2^attempt + random.uniform(0, 1)), then the next
\* pass of the loop, if there is one.
RetrySleep ==
    /\ wrapped.at = "sleeping"
    /\ \E jitter \in Uniform01 :
          wrapped' = [wrapped EXCEPT
                         !.sleeps = Append(@, [attempt |-> wrapped.attempt, jitter |-> jitter]),
                         !.attempt = @ + 1,
                         !.at = IF wrapped.attempt + 1 <= wrapped.max_retries
                                THEN "calling" ELSE "raised"]
    /\ UNCHANGED <<collectorVars, reconcilerVars, leagueVars, raceVars, txVars, startup, loop,
                   prev_url, clientVars, backfillVars>>

NextRetry == Invoke \/ CallFunc \/ RetrySleep

SpecRetry == InitRetry /\ [][NextRetry]_vars

(***************************************************************************)
(* Claims about with_retry, checked under SpecRetry.                       *)
(***************************************************************************)
\* Every call of the function so far raised an error.
EveryCallRaised ==
    /\ wrapped.calls # <<>>
    /\ \A i \in DOMAIN wrapped.calls : wrapped.calls[i] = "raise"

(***************************************************************************)
(* C37: the wrapper of with_retry(max_retries) calls the function at most  *)
(* max_retries + 1 times; it returns the result of the first call that     *)
(* does not raise, without a further call; and when every call has raised  *)
(* an error (an exception deriving from Exception) it raises the exception *)
(* of the last call, after max_retries + 1 calls and exactly max_retries   *)
(* backoff sleeps.                                                         *)
(***************************************************************************)
C37_AtMostMaxRetriesPlusOneCalls ==
    /\ Len(wrapped.calls) <= wrapped.max_retries + 1
    /\ \A i \in DOMAIN wrapped.calls :
          wrapped.calls[i] = "return" =>
              /\ i = Len(wrapped.calls)
              /\ wrapped.at = "returned"
              /\ wrapped.outcome = i
    /\ wrapped.at = "returned" => wrapped.calls[Len(wrapped.calls)] = "return"
    /\ (wrapped.at = "raised" /\ EveryCallRaised) =>
          /\ wrapped.outcome = Len(wrapped.calls)
          /\ Len(wrapped.calls) = wrapped.max_retries + 1
          /\ Len(wrapped.sleeps) = wrapped.max_retries
    /\ Len(wrapped.sleeps) <= Len(wrapped.calls)

\* Two retries allowed: three calls raised and the third call's exception left the
\* wrapper after two sleeps.
C37_Witness ==
    /\ wrapped.max_retries = 2
    /\ wrapped.at = "raised"
    /\ wrapped.calls = <<"raise", "raise", "raise">>
    /\ Len(wrapped.sleeps) = 2
    /\ wrapped.outcome = 3

(***************************************************************************)
(* Claims about the keys of the circuit breaker, checked under SpecKeys.   *)
(***************************************************************************)
\* Two URLs that differ at most in their query string.
SameEndpoint(u1, u2) == u1.netloc = u2.netloc /\ u1.path = u2.path

\* The failure counter and the open_until entry the client keeps for a URL.
CounterOf(u) == DictGet(failure_counts, GetCircuitKey(u), 0)

OpenUntilOf(u) == DictGet(circuit_open_until, GetCircuitKey(u), NoTime)

(***************************************************************************)
(* C34: the breaker state is kept per (host, path): after every step, URLs *)
(* that differ only in their query string have one failure counter and one *)
(* open state, and the step has changed neither the counter nor the open   *)
(* state of a URL of another endpoint than the one of the get in progress. *)
(***************************************************************************)
C34_BreakerKeyedByHostAndPath ==
    [][/\ \A u1 \in URLs, u2 \in URLs :
             SameEndpoint(u1, u2) =>
                 /\ CounterOf(u1)' = CounterOf(u2)'
                 /\ OpenUntilOf(u1)' = OpenUntilOf(u2)'
       /\ \A u \in URLs :
             ~SameEndpoint(u, call'.url) =>
                 /\ CounterOf(u)' = CounterOf(u)
                 /\ OpenUntilOf(u)' = OpenUntilOf(u)
      ]_vars

\* With a threshold of 2, a get of one history URL failed after a get of the other
\* history URL: the counter they share is 2 and their circuit is open, while the
\* counter of the catalog endpoint, which failed once before, is still 1.
C34_Witness ==
    /\ circuit_breaker_threshold = 2
    /\ prev_url = HistoryUrl("currency", 1)
    /\ call.url = HistoryUrl("currency", 2)
    /\ pc = "idle"
    /\ call.result = "none"
    /\ ~call.shortCircuited
    /\ CounterOf(call.url) = 2
    /\ OpenUntilOf(call.url) # NoTime
    /\ CounterOf(CatalogUrl("currency")) = 1
    /\ OpenUntilOf(CatalogUrl("currency")) = NoTime

(***************************************************************************)
(* Claims about the breaker state, checked under Spec.                     *)
(***************************************************************************)
(***************************************************************************)
(* C35: a get that an open circuit short-circuits leaves the breaker state *)
(* as it is (no counter incremented, no open_until moved) and makes no     *)
(* network request and no backoff sleep.                                   *)
(***************************************************************************)
C35_ShortCircuitChangesNothing ==
    [][ (pc = "idle" /\ pc' = "idle" /\ call'.shortCircuited) =>
            /\ failure_counts' = failure_counts
            /\ circuit_open_until' = circuit_open_until
            /\ call'.requests = 0
            /\ call'.sleeps = 0 ]_vars

\* A get of the catalog has been short-circuited one second before its circuit,
\* opened by two failures, expires.
C35_Witness ==
    /\ pc = "idle"
    /\ call.shortCircuited
    /\ call.url = CatalogUrl("currency")
    /\ circuit_breaker_threshold = 2
    /\ DictGet(failure_counts, GetCircuitKey(call.url), 0) = 2
    /\ GetCircuitKey(call.url) \in DOMAIN circuit_open_until
    /\ circuit_open_until[GetCircuitKey(call.url)] = now + 1

(***************************************************************************)
(* C36: in every state reached by sequential gets, the failure counter of  *)
(* each key lies between 0 and circuit_breaker_threshold, and a key has an *)
(* open_until entry only if its counter equals the threshold.              *)
(***************************************************************************)
C36_CounterWithinThreshold ==
    /\ \A k \in DOMAIN failure_counts :
          failure_counts[k] >= 0 /\ failure_counts[k] <= circuit_breaker_threshold
    /\ \A k \in DOMAIN circuit_open_until :
          DictGet(failure_counts, k, 0) = circuit_breaker_threshold

\* One key is open with its counter at the threshold of 2 while a call to the other
\* key, whose counter is 1, is in progress after the open circuit's expiry time.
C36_Witness ==
    /\ circuit_breaker_threshold = 2
    /\ pc = "request"
    /\ \E k \in Keys :
          /\ k # GetCircuitKey(call.url)
          /\ k \in DOMAIN circuit_open_until
          /\ now >= circuit_open_until[k]
          /\ failure_counts[k] = 2
    /\ DictGet(failure_counts, GetCircuitKey(call.url), 0) = 1

(***************************************************************************)
(* Claims about the bulk dumps, checked under SpecHistorical.              *)
(***************************************************************************)
(***************************************************************************)
(* C39: over any number of collection cycles the bulk dump of a category   *)
(* is appended at most once for a league processed as historical: no table *)
(* holds a row of the dump twice.                                          *)
(***************************************************************************)
C39_DumpAppendedAtMostOnce ==
    \A cat \in CategorySet : \A r \in BagToSet(store[cat]) :
        CopiesIn(r, store[cat]) <= 1

=============================================================================
